---- MODULE Spec2Model ----
(***************************************************************************)
(* Decision logic of the Intelligems analytics tools: verdict             *)
(* classification, variant selection, funnel breakpoint detection and the  *)
(* control flow of the tools' main() functions around them.                *)
(*                                                                         *)
(* Numbers.  p2bb and uplift are Python floats; the model keeps them as    *)
(* integers in thousandths (0.80 is 800, 0.02 is 20, 0.005 is 5), so that  *)
(* every comparison of the code is the same comparison on integers.        *)
(* JSON values.  Every value read from the API carries a tag t: None is    *)
(* [t |-> "null"], a number x is [t |-> "num", v |-> x], an id is          *)
(* [t |-> "str", v |-> n] and a dict is [t |-> "dict", <its keys>].  Using *)
(* None as a number is an evaluation error in the model, as it is a        *)
(* TypeError in the code.                                                  *)
(***************************************************************************)
EXTENDS Integers, Sequences, FiniteSets, TLC

VARIABLES
    p2bb,            \* classifier input: probability to beat baseline (optional)
    uplift,          \* classifier input: uplift of the primary metric (optional)
    days,            \* runtime of the experiment in days
    total_orders,    \* get_total_orders(metrics) of the overview feed
    total_visitors,  \* get_total_visitors(metrics) of the overview feed
    res,             \* last classification made: [site, verdict]
    variations,      \* experiment["variations"]: sequence of [id, isControl]
    metrics,         \* overview feed analytics["metrics"]: sequence of records
    run,             \* outcome of the last tool run on the snapshot
    stages,          \* funnel stage list handed to the stage scans
    found,           \* result of the last stage scan: [fn, stage]
    grouped,         \* group_metrics_by_segment(seg_metrics): sequence of [name, seg_m]
    segments,        \* segment results of the last run, in report order
    rec,             \* recommendation of the last run
    proj,            \* financial projection of the last run
    fails,           \* segment types whose get_segment_analytics call raises
    req,             \* IntelligemsAPI._request: position, attempt, log, outcome
    experiments,     \* morning brief: compute_health arguments, one per test
    test_cards       \* morning brief: the cards, in report order

vars == <<p2bb, uplift, days, total_orders, total_visitors, res,
          variations, metrics, run, stages, found,
          grouped, segments, rec, proj,
          fails, req, experiments, test_cards>>

--------------------------------------------------------------------------
(* JSON values *)

None == [t |-> "null"]
Some(x) == [t |-> "num", v |-> x]
ID(n) == [t |-> "str", v |-> n]
Val(o) == o.v
Abs(x) == IF x < 0 THEN -x ELSE x

\* isinstance(j, dict)
IsDict(j) == j.t = "dict"
\* d.get(k): the value under k, None when d has no key k
Get(d, k) == IF k \in DOMAIN d THEN d[k] ELSE None
\* d.get(k, {}): the value under k, the empty dict when d has no key k
GetOrEmptyDict(d, k) == IF k \in DOMAIN d THEN d[k] ELSE [t |-> "dict"]

--------------------------------------------------------------------------
(* ig_config.py: thresholds, in thousandths where they are fractions *)

Unit == 1000
MIN_CONFIDENCE == 800
NEUTRAL_LIFT_THRESHOLD == 20
MIN_VISITORS == 100
VERDICT_MIN_RUNTIME == 10
VERDICT_MIN_ORDERS == 30
FLAT_MIN_DAYS == 21
DIRECTION_DEAD_ZONE == 5

Verdicts == {"WINNER", "LOSER", "FLAT", "KEEP RUNNING", "TOO EARLY"}

--------------------------------------------------------------------------
(* Bounds of the classifier inputs *)

MaxDays == 22
MaxOrders == 30
MaxVisitors == 100

P2bbGrid == {0, 199, 200, 201, 500, 799, 800, 801, 1000}
UpliftGrid == {-50, -21, -20, -19, 0, 19, 20, 21, 50}
P2bbVals == {None} \cup {Some(p) : p \in P2bbGrid}
UpliftVals == {None} \cup {Some(u) : u \in UpliftGrid}
DaysVals == 0..MaxDays
OrdersVals == (VERDICT_MIN_ORDERS - 1)..MaxOrders
VisitorsVals == (MIN_VISITORS - 1)..MaxVisitors

--------------------------------------------------------------------------
(* The experiment-level classifier, once per tool that defines it *)

rollout_compute_verdict_gate_and(p, u, d, o) ==
    IF d < VERDICT_MIN_RUNTIME /\ o < VERDICT_MIN_ORDERS THEN "TOO EARLY"
    ELSE IF p = None \/ u = None THEN "TOO EARLY"
    ELSE IF Val(p) >= MIN_CONFIDENCE /\ Val(u) > NEUTRAL_LIFT_THRESHOLD THEN "WINNER"
    ELSE IF (Unit - Val(p)) >= MIN_CONFIDENCE /\ Val(u) < -NEUTRAL_LIFT_THRESHOLD THEN "LOSER"
    ELSE IF d >= FLAT_MIN_DAYS /\ Abs(Val(u)) <= NEUTRAL_LIFT_THRESHOLD THEN "FLAT"
    ELSE "KEEP RUNNING"

rollout_compute_verdict_inclusive_uplift(p, u, d, o) ==
    IF d < VERDICT_MIN_RUNTIME \/ o < VERDICT_MIN_ORDERS THEN "TOO EARLY"
    ELSE IF p = None \/ u = None THEN "TOO EARLY"
    ELSE IF Val(p) >= MIN_CONFIDENCE /\ Val(u) >= NEUTRAL_LIFT_THRESHOLD THEN "WINNER"
    ELSE IF (Unit - Val(p)) >= MIN_CONFIDENCE /\ Val(u) < -NEUTRAL_LIFT_THRESHOLD THEN "LOSER"
    ELSE IF d >= FLAT_MIN_DAYS /\ Abs(Val(u)) <= NEUTRAL_LIFT_THRESHOLD THEN "FLAT"
    ELSE "KEEP RUNNING"

rollout_compute_verdict(p, u, d, o) ==
    IF d < VERDICT_MIN_RUNTIME \/ o < VERDICT_MIN_ORDERS THEN "TOO EARLY"
    ELSE IF p = None \/ u = None THEN "TOO EARLY"
    ELSE IF Val(p) >= MIN_CONFIDENCE /\ Val(u) > NEUTRAL_LIFT_THRESHOLD THEN "WINNER"
    ELSE IF (Unit - Val(p)) >= MIN_CONFIDENCE /\ Val(u) < -NEUTRAL_LIFT_THRESHOLD THEN "LOSER"
    ELSE IF d >= FLAT_MIN_DAYS /\ Abs(Val(u)) <= NEUTRAL_LIFT_THRESHOLD THEN "FLAT"
    ELSE "KEEP RUNNING"

debrief_compute_verdict_loser_on_p2bb(p, u, d, o) ==
    IF d < VERDICT_MIN_RUNTIME \/ o < VERDICT_MIN_ORDERS THEN "TOO EARLY"
    ELSE IF p = None \/ u = None THEN "TOO EARLY"
    ELSE IF Val(p) >= MIN_CONFIDENCE /\ Val(u) > NEUTRAL_LIFT_THRESHOLD THEN "WINNER"
    ELSE IF Val(p) >= MIN_CONFIDENCE /\ Val(u) < -NEUTRAL_LIFT_THRESHOLD THEN "LOSER"
    ELSE IF d >= FLAT_MIN_DAYS /\ Abs(Val(u)) <= NEUTRAL_LIFT_THRESHOLD THEN "FLAT"
    ELSE "KEEP RUNNING"

debrief_compute_verdict(p, u, d, o) ==
    IF d < VERDICT_MIN_RUNTIME \/ o < VERDICT_MIN_ORDERS THEN "TOO EARLY"
    ELSE IF p = None \/ u = None THEN "TOO EARLY"
    ELSE IF Val(p) >= MIN_CONFIDENCE /\ Val(u) > NEUTRAL_LIFT_THRESHOLD THEN "WINNER"
    ELSE IF (Unit - Val(p)) >= MIN_CONFIDENCE /\ Val(u) < -NEUTRAL_LIFT_THRESHOLD THEN "LOSER"
    ELSE IF d >= FLAT_MIN_DAYS /\ Abs(Val(u)) <= NEUTRAL_LIFT_THRESHOLD THEN "FLAT"
    ELSE "KEEP RUNNING"

portfolio_compute_verdict_flat_at_gate(p, u, d, o) ==
    IF d < VERDICT_MIN_RUNTIME \/ o < VERDICT_MIN_ORDERS THEN "TOO EARLY"
    ELSE IF p = None \/ u = None THEN "TOO EARLY"
    ELSE IF Val(p) >= MIN_CONFIDENCE /\ Val(u) > NEUTRAL_LIFT_THRESHOLD THEN "WINNER"
    ELSE IF (Unit - Val(p)) >= MIN_CONFIDENCE /\ Val(u) < -NEUTRAL_LIFT_THRESHOLD THEN "LOSER"
    ELSE IF d >= VERDICT_MIN_RUNTIME /\ Abs(Val(u)) <= NEUTRAL_LIFT_THRESHOLD THEN "FLAT"
    ELSE "KEEP RUNNING"

portfolio_compute_verdict(p, u, d, o) ==
    IF d < VERDICT_MIN_RUNTIME \/ o < VERDICT_MIN_ORDERS THEN "TOO EARLY"
    ELSE IF p = None \/ u = None THEN "TOO EARLY"
    ELSE IF Val(p) >= MIN_CONFIDENCE /\ Val(u) > NEUTRAL_LIFT_THRESHOLD THEN "WINNER"
    ELSE IF (Unit - Val(p)) >= MIN_CONFIDENCE /\ Val(u) < -NEUTRAL_LIFT_THRESHOLD THEN "LOSER"
    ELSE IF d >= FLAT_MIN_DAYS /\ Abs(Val(u)) <= NEUTRAL_LIFT_THRESHOLD THEN "FLAT"
    ELSE "KEEP RUNNING"

--------------------------------------------------------------------------
(* test-verdict: the per-variation classifier and the maturity check of main *)

variation_verdict(p, u, d) ==
    IF p = None \/ u = None THEN "TOO EARLY"
    ELSE IF Val(p) >= MIN_CONFIDENCE /\ Val(u) > NEUTRAL_LIFT_THRESHOLD THEN "WINNER"
    ELSE IF (Unit - Val(p)) >= MIN_CONFIDENCE /\ Val(u) < -NEUTRAL_LIFT_THRESHOLD THEN "LOSER"
    ELSE IF d >= FLAT_MIN_DAYS /\ Abs(Val(u)) <= NEUTRAL_LIFT_THRESHOLD THEN "FLAT"
    ELSE "KEEP RUNNING"

\* maturity_issues is non-empty: runtime, orders or visitors below their minimum
is_too_early(d, o, v) ==
    d < VERDICT_MIN_RUNTIME \/ o < VERDICT_MIN_ORDERS \/ v < MIN_VISITORS

\* v_verdict of one variation in main
verdict_main_v_verdict(p, u, d, o, v) ==
    IF is_too_early(d, o, v) THEN "TOO EARLY" ELSE variation_verdict(p, u, d)

\* seg_verdict of one device segment in main's quick-check
verdict_main_seg_verdict(seg_p2bb, seg_uplift, d) ==
    IF seg_uplift # None THEN variation_verdict(seg_p2bb, seg_uplift, d)
    ELSE "LOW DATA"

--------------------------------------------------------------------------
(* The segment-scoped classifier, once per tool that defines it *)

spotlight_segment_verdict(p, u, d) ==
    IF p = None \/ u = None THEN "LOW DATA"
    ELSE IF Val(p) >= MIN_CONFIDENCE /\ Val(u) > NEUTRAL_LIFT_THRESHOLD THEN "WINNER"
    ELSE IF (Unit - Val(p)) >= MIN_CONFIDENCE /\ Val(u) < -NEUTRAL_LIFT_THRESHOLD THEN "LOSER"
    ELSE IF d >= FLAT_MIN_DAYS /\ Abs(Val(u)) <= NEUTRAL_LIFT_THRESHOLD THEN "FLAT"
    ELSE "KEEP RUNNING"

rollout_segment_verdict(p, u, d) ==
    IF p = None \/ u = None THEN "LOW DATA"
    ELSE IF Val(p) >= MIN_CONFIDENCE /\ Val(u) > NEUTRAL_LIFT_THRESHOLD THEN "WINNER"
    ELSE IF (Unit - Val(p)) >= MIN_CONFIDENCE /\ Val(u) < -NEUTRAL_LIFT_THRESHOLD THEN "LOSER"
    ELSE IF d >= FLAT_MIN_DAYS /\ Abs(Val(u)) <= NEUTRAL_LIFT_THRESHOLD THEN "FLAT"
    ELSE "KEEP RUNNING"

--------------------------------------------------------------------------
(* ig_metrics.py: lookups over a metrics feed.  A feed is a sequence of    *)
(* dicts, each with a variation_id and one dict per metric it carries.     *)

\* x or 0, for x a number or None
NumOrZero(j) == IF j = None THEN 0 ELSE Val(j)

RECURSIVE get_metric_value_scan(_, _, _, _)
get_metric_value_scan(ms, metric_name, variation_id, i) ==
    IF i > Len(ms) THEN None
    ELSE LET m == ms[i]
             data == GetOrEmptyDict(m, metric_name)
         IN IF Get(m, "variation_id") = variation_id /\ IsDict(data)
            THEN Get(data, "value")
            ELSE get_metric_value_scan(ms, metric_name, variation_id, i + 1)

get_metric_value(ms, metric_name, variation_id) ==
    get_metric_value_scan(ms, metric_name, variation_id, 1)

RECURSIVE get_metric_uplift_scan(_, _, _, _)
get_metric_uplift_scan(ms, metric_name, variation_id, i) ==
    IF i > Len(ms) THEN None
    ELSE LET m == ms[i]
             data == GetOrEmptyDict(m, metric_name)
             up == GetOrEmptyDict(data, "uplift")
         IN IF Get(m, "variation_id") = variation_id /\ IsDict(data) /\ IsDict(up)
            THEN Get(up, "value")
            ELSE get_metric_uplift_scan(ms, metric_name, variation_id, i + 1)

\* a variant that reads an absent uplift as 0
get_metric_uplift_or_zero(ms, metric_name, variation_id) ==
    Some(NumOrZero(get_metric_uplift_scan(ms, metric_name, variation_id, 1)))

get_metric_uplift(ms, metric_name, variation_id) ==
    get_metric_uplift_scan(ms, metric_name, variation_id, 1)

RECURSIVE get_metric_confidence_scan(_, _, _, _)
get_metric_confidence_scan(ms, metric_name, variation_id, i) ==
    IF i > Len(ms) THEN None
    ELSE LET m == ms[i]
             data == GetOrEmptyDict(m, metric_name)
         IN IF Get(m, "variation_id") = variation_id /\ IsDict(data)
            THEN Get(data, "p2bb")
            ELSE get_metric_confidence_scan(ms, metric_name, variation_id, i + 1)

get_metric_confidence(ms, metric_name, variation_id) ==
    get_metric_confidence_scan(ms, metric_name, variation_id, 1)


\* total += d.get("value", 0) or 0, for d = m.get(metric_name, {}) when d is a dict
RECURSIVE sum_metric_value(_, _, _)
sum_metric_value(ms, metric_name, i) ==
    IF i > Len(ms) THEN 0
    ELSE LET d == GetOrEmptyDict(ms[i], metric_name)
         IN (IF IsDict(d) THEN NumOrZero(Get(d, "value")) ELSE 0)
            + sum_metric_value(ms, metric_name, i + 1)

get_total_visitors(ms) == sum_metric_value(ms, "n_visitors", 1)

get_total_orders(ms) == sum_metric_value(ms, "n_orders", 1)

has_cogs_data(ms) ==
    \E i \in 1..Len(ms) :
        LET pct == GetOrEmptyDict(ms[i], "pct_revenue_with_cogs")
        IN /\ IsDict(pct)
           /\ Get(pct, "value") # None
           /\ Val(Get(pct, "value")) > 0

\* a variant that looks at the first record only
primary_revenue_metric_first_record(ms) ==
    IF ms # <<>> /\ has_cogs_data(<<ms[1]>>)
    THEN "gross_profit_per_visitor" ELSE "net_revenue_per_visitor"

primary_revenue_metric(ms) ==
    IF has_cogs_data(ms) THEN "gross_profit_per_visitor" ELSE "net_revenue_per_visitor"

--------------------------------------------------------------------------
(* ig_helpers.py: variations.  A variation is [id, isControl]. *)

RECURSIVE find_control_scan(_, _)
find_control_scan(vs, i) ==
    IF i > Len(vs) THEN None
    ELSE IF vs[i].isControl THEN vs[i]
    ELSE find_control_scan(vs, i + 1)

find_control(vs) == find_control_scan(vs, 1)

find_variants(vs) == SelectSeq(vs, LAMBDA v : ~v.isControl)

--------------------------------------------------------------------------
(* pick_best_variant, once per tool that defines it: the loop keeps        *)
(* (best, best_uplift) and replaces them on a strictly greater uplift.     *)

RECURSIVE funnel_pick_best_loop(_, _, _, _, _, _)
funnel_pick_best_loop(variants, ms, metric_name, i, best, best_uplift) ==
    IF i > Len(variants) THEN best
    ELSE LET v == variants[i]
             u == get_metric_uplift(ms, metric_name, v.id)
         IN IF u # None /\ (best_uplift = None \/ Val(u) > Val(best_uplift))
            THEN funnel_pick_best_loop(variants, ms, metric_name, i + 1, v, u)
            ELSE funnel_pick_best_loop(variants, ms, metric_name, i + 1, best, best_uplift)

\* the loop with >= in place of >: the last of several equal uplifts wins
RECURSIVE funnel_pick_best_loop_last_tie(_, _, _, _, _, _)
funnel_pick_best_loop_last_tie(variants, ms, metric_name, i, best, best_uplift) ==
    IF i > Len(variants) THEN best
    ELSE LET v == variants[i]
             u == get_metric_uplift(ms, metric_name, v.id)
         IN IF u # None /\ (best_uplift = None \/ Val(u) >= Val(best_uplift))
            THEN funnel_pick_best_loop_last_tie(variants, ms, metric_name, i + 1, v, u)
            ELSE funnel_pick_best_loop_last_tie(variants, ms, metric_name, i + 1, best, best_uplift)

funnel_pick_best_variant_last_tie(variants, ms, metric_name) ==
    funnel_pick_best_loop_last_tie(variants, ms, metric_name, 1, None, None)

funnel_pick_best_variant(variants, ms, metric_name) ==
    funnel_pick_best_loop(variants, ms, metric_name, 1, None, None)

RECURSIVE spotlight_pick_best_loop(_, _, _, _, _, _)
spotlight_pick_best_loop(variants, ms, metric_name, i, best, best_uplift) ==
    IF i > Len(variants) THEN best
    ELSE LET v == variants[i]
             u == get_metric_uplift(ms, metric_name, v.id)
         IN IF u # None /\ (best_uplift = None \/ Val(u) > Val(best_uplift))
            THEN spotlight_pick_best_loop(variants, ms, metric_name, i + 1, v, u)
            ELSE spotlight_pick_best_loop(variants, ms, metric_name, i + 1, best, best_uplift)

spotlight_pick_best_variant(variants, ms, metric_name) ==
    spotlight_pick_best_loop(variants, ms, metric_name, 1, None, None)

RECURSIVE impact_pick_best_loop(_, _, _, _, _, _)
impact_pick_best_loop(variants, ms, metric_name, i, best, best_uplift) ==
    IF i > Len(variants) THEN best
    ELSE LET v == variants[i]
             u == get_metric_uplift(ms, metric_name, v.id)
         IN IF u # None /\ (best_uplift = None \/ Val(u) > Val(best_uplift))
            THEN impact_pick_best_loop(variants, ms, metric_name, i + 1, v, u)
            ELSE impact_pick_best_loop(variants, ms, metric_name, i + 1, best, best_uplift)

impact_pick_best_variant(variants, ms, metric_name) ==
    impact_pick_best_loop(variants, ms, metric_name, 1, None, None)

RECURSIVE rollout_pick_best_loop(_, _, _, _, _, _)
rollout_pick_best_loop(variants, ms, metric_name, i, best, best_uplift) ==
    IF i > Len(variants) THEN best
    ELSE LET v == variants[i]
             u == get_metric_uplift(ms, metric_name, v.id)
         IN IF u # None /\ (best_uplift = None \/ Val(u) > Val(best_uplift))
            THEN rollout_pick_best_loop(variants, ms, metric_name, i + 1, v, u)
            ELSE rollout_pick_best_loop(variants, ms, metric_name, i + 1, best, best_uplift)

rollout_pick_best_variant(variants, ms, metric_name) ==
    rollout_pick_best_loop(variants, ms, metric_name, 1, None, None)

RECURSIVE debrief_pick_best_loop(_, _, _, _, _, _)
debrief_pick_best_loop(variants, ms, metric_name, i, best, best_uplift) ==
    IF i > Len(variants) THEN best
    ELSE LET v == variants[i]
             u == get_metric_uplift(ms, metric_name, v.id)
         IN IF u # None /\ (best_uplift = None \/ Val(u) > Val(best_uplift))
            THEN debrief_pick_best_loop(variants, ms, metric_name, i + 1, v, u)
            ELSE debrief_pick_best_loop(variants, ms, metric_name, i + 1, best, best_uplift)

debrief_pick_best_variant(variants, ms, metric_name) ==
    debrief_pick_best_loop(variants, ms, metric_name, 1, None, None)

\* portfolio.py best_variant_metrics: the same loop, keeping <<best_uplift, best_conf>>
RECURSIVE best_variant_metrics_loop(_, _, _, _, _, _)
best_variant_metrics_loop(variants, ms, metric_name, i, best_uplift, best_conf) ==
    IF i > Len(variants) THEN <<best_uplift, best_conf>>
    ELSE LET v == variants[i]
             u == get_metric_uplift(ms, metric_name, v.id)
         IN IF u # None /\ (best_uplift = None \/ Val(u) > Val(best_uplift))
            THEN best_variant_metrics_loop(variants, ms, metric_name, i + 1, u,
                                           get_metric_confidence(ms, metric_name, v.id))
            ELSE best_variant_metrics_loop(variants, ms, metric_name, i + 1,
                                           best_uplift, best_conf)

best_variant_metrics(variants, ms, metric_name) ==
    best_variant_metrics_loop(variants, ms, metric_name, 1, None, None)

--------------------------------------------------------------------------
(* Specification SpecClassify: one classification input, drawn from the    *)
(* grids above, and every place of the tools that classifies it.  The      *)
(* segment actions read p2bb and uplift as the segment's confidence and    *)
(* uplift.                                                                 *)

NoRes == [site |-> "none", verdict |-> "none"]
NoRun == [tool |-> "none", status |-> "idle", pick |-> "n/a",
          picked |-> None, best |-> None, verdict |-> "n/a"]
NoFound == [fn |-> "none", stage |-> None]
NoRec == [action |-> "none"]
NoProj == [tool |-> "none"]

InitClassify ==
    /\ p2bb \in P2bbVals
    /\ uplift \in UpliftVals
    /\ days \in DaysVals
    /\ total_orders \in OrdersVals
    /\ total_visitors \in VisitorsVals
    /\ res = NoRes
    /\ variations = <<>>
    /\ metrics = <<>>
    /\ run = NoRun
    /\ stages = <<>>
    /\ found = NoFound
    /\ grouped = <<>>
    /\ segments = <<>>
    /\ rec = NoRec
    /\ proj = NoProj
    /\ fails = {}
    /\ req = [pc |-> "idle"]
    /\ experiments = <<>>
    /\ test_cards = <<>>

\* everything but the last classification
classify_frame == <<p2bb, uplift, days, total_orders, total_visitors,
                    variations, metrics, run, stages, found,
                    grouped, segments, rec, proj,
                   fails, req, experiments, test_cards>>

\* rollout.py main: verdict = compute_verdict(confidence, uplift, days, total_orders)
RolloutVerdict ==
    /\ res' = [site |-> "rollout",
               verdict |-> rollout_compute_verdict(p2bb, uplift, days, total_orders)]
    /\ UNCHANGED classify_frame

\* debrief.py main: verdict = compute_verdict(confidence, uplift, days, total_orders)
DebriefVerdict ==
    /\ res' = [site |-> "debrief",
               verdict |-> debrief_compute_verdict(p2bb, uplift, days, total_orders)]
    /\ UNCHANGED classify_frame

\* portfolio.py main: verdict = compute_verdict(conf, uplift, days, total_orders)
PortfolioVerdict ==
    /\ res' = [site |-> "portfolio",
               verdict |-> portfolio_compute_verdict(p2bb, uplift, days, total_orders)]
    /\ UNCHANGED classify_frame

\* verdict.py main: maturity check, then variation_verdict
VerdictToolVerdict ==
    /\ res' = [site |-> "verdict",
               verdict |-> verdict_main_v_verdict(p2bb, uplift, days, total_orders, total_visitors)]
    /\ UNCHANGED classify_frame

\* verdict.py: variation_verdict applied to the input as it stands
VariationVerdict ==
    /\ res' = [site |-> "variation_verdict",
               verdict |-> variation_verdict(p2bb, uplift, days)]
    /\ UNCHANGED classify_frame

\* spotlight.py main: v = segment_verdict(seg_conf, seg_uplift, days)
SpotlightSegment ==
    /\ res' = [site |-> "spotlight.segment",
               verdict |-> spotlight_segment_verdict(p2bb, uplift, days)]
    /\ UNCHANGED classify_frame

\* rollout.py main: v = segment_verdict(seg_conf, seg_uplift, days)
RolloutSegment ==
    /\ res' = [site |-> "rollout.segment",
               verdict |-> rollout_segment_verdict(p2bb, uplift, days)]
    /\ UNCHANGED classify_frame

\* verdict.py main: the device quick-check, run only when not is_too_early
VerdictToolSegment ==
    /\ ~is_too_early(days, total_orders, total_visitors)
    /\ res' = [site |-> "verdict.segment",
               verdict |-> verdict_main_seg_verdict(p2bb, uplift, days)]
    /\ UNCHANGED classify_frame

NextClassify ==
    \/ RolloutVerdict
    \/ DebriefVerdict
    \/ PortfolioVerdict
    \/ VerdictToolVerdict
    \/ VariationVerdict
    \/ SpotlightSegment
    \/ RolloutSegment
    \/ VerdictToolSegment

SpecClassify == InitClassify /\ [][NextClassify]_vars

ExperimentSites == {"rollout", "debrief", "portfolio", "verdict"}
ComputeVerdictSites == {"rollout", "debrief", "portfolio"}
SegmentSites == {"spotlight.segment", "rollout.segment", "verdict.segment"}

--------------------------------------------------------------------------
(* Claims on the classifiers, checked under SpecClassify *)

\* The classifier of the written specification (section 4.3), with explicit thresholds
classify(p, u, runtimeDays, totalOrders, minRuntime, minOrders, minConfidence, neutralThreshold) ==
    IF runtimeDays < minRuntime \/ totalOrders < minOrders THEN "TOO EARLY"
    ELSE IF p = None \/ u = None THEN "TOO EARLY"
    ELSE IF Val(p) >= minConfidence /\ Val(u) > neutralThreshold THEN "WINNER"
    ELSE IF (1000 - Val(p)) >= minConfidence /\ Val(u) < -neutralThreshold THEN "LOSER"
    ELSE IF runtimeDays >= 21 /\ Abs(Val(u)) <= neutralThreshold THEN "FLAT"
    ELSE "KEEP RUNNING"

\* C1: whatever p2bb and uplift are (present or absent), an experiment with
\* runtime below 10 days or fewer than 30 orders gets the verdict TOO EARLY at
\* every place that issues an experiment verdict; no other verdict is issued
\* below either maturity threshold.
C1_TooEarlyBelowMaturity ==
    (res.site \in ExperimentSites /\ (days < 10 \/ total_orders < 30))
        => res.verdict = "TOO EARLY"

\* C1 witness: the test-verdict tool has classified an input of full confidence
\* and large uplift that has the runtime but not the orders.
C1_Witness ==
    /\ res.site = "verdict"
    /\ days >= 10 /\ total_orders < 30
    /\ p2bb = Some(1000) /\ uplift = Some(50)
    /\ res.verdict = "TOO EARLY"

\* C2: compute_verdict returns, for every input, the verdict of the ordered
\* rule list of the specification with the default thresholds 0.80, 0.02,
\* 10 days and 30 orders, and that verdict is one of the five values.
C2_ComputeVerdictIsClassify ==
    res.site \in ComputeVerdictSites =>
        /\ res.verdict = classify(p2bb, uplift, days, total_orders, 10, 30, 800, 20)
        /\ res.verdict \in Verdicts

\* C2 witness: debrief's compute_verdict has returned LOSER, the rule that
\* reads the confidence as 1 - p2bb.
C2_Witness ==
    /\ res.site = "debrief"
    /\ res.verdict = "LOSER"
    /\ p2bb = Some(200) /\ uplift = Some(-21)

\* C3: on a mature experiment the confidence comparison is inclusive and the
\* uplift comparison strict: p2bb exactly 0.80 with uplift above 0.02 is WINNER;
\* uplift exactly 0.02 or -0.02 is never WINNER or LOSER whatever the
\* confidence; at day 10 with 30 orders, p2bb 0.80 and uplift 0.020 give
\* KEEP RUNNING.  Checked on rollout's compute_verdict and on variation_verdict.
C3_Boundaries ==
    (\/ res.site = "rollout" /\ days >= 10 /\ total_orders >= 30
     \/ res.site = "variation_verdict" /\ days >= 10) =>
        /\ (p2bb = Some(800) /\ uplift # None /\ Val(uplift) > 20)
               => res.verdict = "WINNER"
        /\ uplift \in {Some(20), Some(-20)}
               => res.verdict \notin {"WINNER", "LOSER"}
        /\ (days = 10 /\ total_orders = 30 /\ p2bb = Some(800) /\ uplift = Some(20))
               => res.verdict = "KEEP RUNNING"

\* C3 witness: rollout's compute_verdict at day 10 with 30 orders, p2bb 0.80
\* and uplift exactly 0.020.
C3_Witness ==
    /\ res.site = "rollout"
    /\ days = 10 /\ total_orders = 30
    /\ p2bb = Some(800) /\ uplift = Some(20)
    /\ res.verdict = "KEEP RUNNING"

\* C4 as stated: FLAT only from day 21 on, and every experiment with 30 orders
\* or more and |uplift| <= 0.02 that is neither WINNER nor LOSER is KEEP RUNNING
\* on days 10 to 20 and FLAT from day 21 on.
C4_FlatOnlyFromDay21 ==
    res.site \in {"portfolio", "variation_verdict"} =>
        /\ res.verdict = "FLAT" => days >= 21
        /\ (/\ total_orders >= 30
            /\ uplift # None
            /\ Abs(Val(uplift)) <= 20
            /\ res.verdict \notin {"WINNER", "LOSER"}) =>
               /\ (days >= 10 /\ days <= 20) => res.verdict = "KEEP RUNNING"
               /\ days >= 21 => res.verdict = "FLAT"

\* C4 amended: the same, for experiments whose p2bb is present (with p2bb
\* absent the verdict is TOO EARLY on every day).
C4_FlatOnlyFromDay21_P2bbPresent ==
    res.site \in {"portfolio", "variation_verdict"} =>
        /\ res.verdict = "FLAT" => days >= 21
        /\ (/\ total_orders >= 30
            /\ p2bb # None
            /\ uplift # None
            /\ Abs(Val(uplift)) <= 20
            /\ res.verdict \notin {"WINNER", "LOSER"}) =>
               /\ (days >= 10 /\ days <= 20) => res.verdict = "KEEP RUNNING"
               /\ days >= 21 => res.verdict = "FLAT"

\* C4 witness: portfolio's compute_verdict on day 20, one day short of FLAT.
C4_Witness ==
    /\ res.site = "portfolio"
    /\ days = 20 /\ total_orders = 30
    /\ p2bb = Some(500) /\ uplift = Some(0)
    /\ res.verdict = "KEEP RUNNING"

\* C5: for the same p2bb, uplift, runtime and total orders, and any total
\* visitor count, the verdict of the test-verdict tool (maturity check, then
\* variation_verdict) equals the verdict compute_verdict returns in rollout,
\* debrief and portfolio.
C5_CallSitesAgree ==
    res.site = "verdict" =>
        /\ res.verdict = rollout_compute_verdict(p2bb, uplift, days, total_orders)
        /\ res.verdict = debrief_compute_verdict(p2bb, uplift, days, total_orders)
        /\ res.verdict = portfolio_compute_verdict(p2bb, uplift, days, total_orders)

\* C6: a segment is classified without the runtime/order gate, is LOW DATA
\* whenever its confidence or its uplift is absent, and is never TOO EARLY, at
\* every place that classifies a segment (spotlight, rollout, the device
\* quick-check of test-verdict).
C6_SegmentNeverTooEarly ==
    res.site \in SegmentSites =>
        /\ res.verdict # "TOO EARLY"
        /\ (p2bb = None \/ uplift = None) => res.verdict = "LOW DATA"

--------------------------------------------------------------------------
(* The tools' main() functions on one experiment snapshot: the structural  *)
(* checks, the choice of the best variant and the experiment verdict.      *)
(* run.pick tells what pick_best_variant returned ("n/a" when it was not   *)
(* called), run.best is the variation the analysis goes on with.           *)

Stopped(tool, pick, picked) ==
    [tool |-> tool, status |-> "error", pick |-> pick,
     picked |-> picked, best |-> None, verdict |-> "n/a"]

Analysed(tool, picked, best, verdict) ==
    [tool |-> tool, status |-> "ok",
     pick |-> IF picked = None THEN "absent" ELSE "found",
     picked |-> picked, best |-> best, verdict |-> verdict]

\* best = pick_best_variant(...); if not best: best = variant_list[0]
OrFirst(picked, variant_list) == IF picked = None THEN variant_list[1] ELSE picked

rollout_main(vs, ms, d) ==
    LET control == find_control(vs)
        variant_list == find_variants(vs)
        rev_metric == primary_revenue_metric(ms)
        picked == rollout_pick_best_variant(variant_list, ms, rev_metric)
        best == OrFirst(picked, variant_list)
        up == get_metric_uplift(ms, rev_metric, best.id)
        confidence == get_metric_confidence(ms, rev_metric, best.id)
    IN IF control = None \/ variant_list = <<>> THEN Stopped("rollout", "n/a", None)
       ELSE IF ms = <<>> THEN Stopped("rollout", "n/a", None)
       ELSE Analysed("rollout", picked, best,
                     rollout_compute_verdict(confidence, up, d, get_total_orders(ms)))

debrief_main(vs, ms, d) ==
    LET control == find_control(vs)
        variant_list == find_variants(vs)
        rev_metric == primary_revenue_metric(ms)
        picked == debrief_pick_best_variant(variant_list, ms, rev_metric)
        best == OrFirst(picked, variant_list)
        up == get_metric_uplift(ms, rev_metric, best.id)
        confidence == get_metric_confidence(ms, rev_metric, best.id)
    IN IF control = None \/ variant_list = <<>> THEN Stopped("debrief", "n/a", None)
       ELSE IF ms = <<>> THEN Stopped("debrief", "n/a", None)
       ELSE Analysed("debrief", picked, best,
                     debrief_compute_verdict(confidence, up, d, get_total_orders(ms)))

funnel_main(vs, ms) ==
    LET control == find_control(vs)
        variant_list == find_variants(vs)
        rev_metric == primary_revenue_metric(ms)
        picked == funnel_pick_best_variant(variant_list, ms, rev_metric)
    IN IF control = None THEN Stopped("funnel", "n/a", None)
       ELSE IF variant_list = <<>> THEN Stopped("funnel", "n/a", None)
       ELSE IF ms = <<>> THEN Stopped("funnel", "n/a", None)
       ELSE Analysed("funnel", picked, OrFirst(picked, variant_list), "n/a")

spotlight_main(vs, ms) ==
    LET control == find_control(vs)
        variant_list == find_variants(vs)
        rev_metric == primary_revenue_metric(ms)
        picked == spotlight_pick_best_variant(variant_list, ms, rev_metric)
    IN IF control = None \/ variant_list = <<>> THEN Stopped("spotlight", "n/a", None)
       ELSE IF ms = <<>> THEN Stopped("spotlight", "n/a", None)
       ELSE Analysed("spotlight", picked, OrFirst(picked, variant_list), "n/a")

\* impact.py stops where the others fall back: "Could not determine best variant"
impact_main(vs, ms) ==
    LET control == find_control(vs)
        variant_list == find_variants(vs)
        metric_name == primary_revenue_metric(ms)
        best == impact_pick_best_variant(variant_list, ms, metric_name)
        control_value == get_metric_value(ms, metric_name, control.id)
        up == get_metric_uplift(ms, metric_name, best.id)
    IN IF ms = <<>> THEN Stopped("impact", "n/a", None)
       ELSE IF control = None THEN Stopped("impact", "n/a", None)
       ELSE IF variant_list = <<>> THEN Stopped("impact", "n/a", None)
       ELSE IF get_total_orders(ms) = 0 THEN Stopped("impact", "n/a", None)
       ELSE IF best = None THEN Stopped("impact", "absent", None)
       ELSE IF control_value = None \/ up = None THEN Stopped("impact", "found", best)
       ELSE Analysed("impact", best, best, "n/a")

\* a variant in which an uplift of exactly 0.005 or -0.005 has a direction
verdict_divergence_open_dead_zone(rpv_uplift, cr_uplift) ==
    LET dir(u) == IF Val(u) >= 5 THEN "up"
                  ELSE IF Val(u) <= -5 THEN "down" ELSE "flat"
    IN IF rpv_uplift = None \/ cr_uplift = None THEN "none"
       ELSE IF dir(rpv_uplift) = dir(cr_uplift) \/ dir(rpv_uplift) = "flat"
               \/ dir(cr_uplift) = "flat" THEN "none"
       ELSE IF dir(rpv_uplift) = "up" THEN "revenue_up_conversion_down"
       ELSE "conversion_up_revenue_down"

\* verdict.py: the revenue vs conversion comparison of one variation
verdict_divergence(rpv_uplift, cr_uplift) ==
    LET dir(u) == IF Val(u) > 5 THEN "up"
                  ELSE IF Val(u) < -5 THEN "down" ELSE "flat"
    IN IF rpv_uplift # None /\ cr_uplift # None
       THEN LET rpv_dir == dir(rpv_uplift)
                cr_dir == dir(cr_uplift)
            IN IF rpv_dir # cr_dir /\ rpv_dir # "flat" /\ cr_dir # "flat"
               THEN IF rpv_dir = "up" /\ cr_dir = "down"
                    THEN "revenue_up_conversion_down"
                    ELSE IF rpv_dir = "down" /\ cr_dir = "up"
                    THEN "conversion_up_revenue_down"
                    ELSE "not_aligned"
               ELSE "none"
       ELSE "none"

\* verdict.py: one entry of variation_results per non-control variation
variation_result(v, vs, ms, d) ==
    LET primary_metric == primary_revenue_metric(ms)
        p == get_metric_confidence(ms, primary_metric, v.id)
        up == get_metric_uplift(ms, primary_metric, v.id)
        rpv_uplift == get_metric_uplift(ms, "net_revenue_per_visitor", v.id)
        cr_uplift == get_metric_uplift(ms, "conversion_rate", v.id)
    IN [id |-> v.id,
        verdict |-> verdict_main_v_verdict(p, up, d, get_total_orders(ms),
                                           get_total_visitors(ms)),
        p2bb |-> p,
        rpv_uplift |-> rpv_uplift,
        cr_uplift |-> cr_uplift,
        divergence |-> verdict_divergence(rpv_uplift, cr_uplift)]

verdict_priority(verdict) ==
    CASE verdict = "WINNER" -> 0
      [] verdict = "KEEP RUNNING" -> 1
      [] verdict = "FLAT" -> 2
      [] verdict = "LOSER" -> 3
      [] verdict = "TOO EARLY" -> 4
      [] OTHER -> 5

\* a variant whose key is the verdict alone
sort_key_less_verdict_only(a, b) ==
    verdict_priority(a.verdict) < verdict_priority(b.verdict)

\* the sort key (verdict_priority, -(p2bb or 0)), compared as Python compares tuples
sort_key_less(a, b) ==
    \/ verdict_priority(a.verdict) < verdict_priority(b.verdict)
    \/ /\ verdict_priority(a.verdict) = verdict_priority(b.verdict)
       /\ -NumOrZero(a.p2bb) < -NumOrZero(b.p2bb)

\* variation_results.sort(key=...)[0]: list.sort is stable, so the first entry
\* after the sort is the earliest entry with the least key
first_after_sort(results) ==
    LET i == CHOOSE k \in 1..Len(results) :
                 /\ \A j \in 1..Len(results) : ~sort_key_less(results[j], results[k])
                 /\ \A j \in 1..(k - 1) : sort_key_less(results[k], results[j])
    IN results[i]

verdict_main(vs, ms, d) ==
    LET control == find_control(vs)
        variants == find_variants(vs)
        variation_results == [i \in 1..Len(variants) |->
                                 variation_result(variants[i], vs, ms, d)]
        best == first_after_sort(variation_results)
        best_variation == CHOOSE v \in {variants[i] : i \in 1..Len(variants)} :
                              v.id = best.id
    IN IF control = None THEN Stopped("verdict", "n/a", None)
       ELSE IF variants = <<>> THEN Stopped("verdict", "n/a", None)
       ELSE IF ms = <<>> THEN Stopped("verdict", "n/a", None)
       ELSE [tool |-> "verdict", status |-> "ok", pick |-> "n/a",
             picked |-> None, best |-> best_variation, verdict |-> best.verdict]

\* portfolio.py: one ended experiment of the loop; no control or variant check
portfolio_main(vs, ms, d, fetched) ==
    LET variant_list == find_variants(vs)
        rev_metric == primary_revenue_metric(ms)
        bvm == best_variant_metrics(variant_list, ms, rev_metric)
        verdict == portfolio_compute_verdict(bvm[2], bvm[1], d, get_total_orders(ms))
    IN [tool |-> "portfolio",
        status |-> IF ~fetched THEN "error" ELSE IF ms = <<>> THEN "no data" ELSE "ok",
        pick |-> "n/a", picked |-> None, best |-> None,
        verdict |-> IF ~fetched THEN "ERROR"
                    ELSE IF ms = <<>> THEN "NO DATA"
                    ELSE verdict]

--------------------------------------------------------------------------
(* Specification SpecMain: one experiment snapshot (a variation list, its  *)
(* overview feed and its runtime) and one run of one of the tools on it:   *)
(* a process executes main() once.                                         *)

MaxVars == 3
MainDays == {VERDICT_MIN_RUNTIME - 1, FLAT_MIN_DAYS}

\* What the feed holds for one variation
FeedChoices == {"norec", "nodata", "nulls", "win", "lowconf", "lose"}

Count(n) == [t |-> "dict", value |-> Some(n)]

Revenue(p, u) ==
    [t |-> "dict", value |-> Some(2000), p2bb |-> p,
     uplift |-> [t |-> "dict", value |-> u, ci_low |-> None, ci_high |-> None]]

FeedRecord(i, c) ==
    CASE c = "nodata" ->
            [t |-> "dict", variation_id |-> ID(i),
             n_orders |-> Count(0), n_visitors |-> Count(0)]
      [] c = "nulls" ->
            [t |-> "dict", variation_id |-> ID(i),
             net_revenue_per_visitor |->
                 [t |-> "dict", value |-> Some(2000), p2bb |-> None, uplift |-> None],
             n_orders |-> Count(15), n_visitors |-> Count(50)]
      [] c = "win" ->
            [t |-> "dict", variation_id |-> ID(i),
             net_revenue_per_visitor |-> Revenue(Some(900), Some(30)),
             n_orders |-> Count(15), n_visitors |-> Count(50)]
      [] c = "lowconf" ->
            [t |-> "dict", variation_id |-> ID(i),
             net_revenue_per_visitor |-> Revenue(None, Some(30)),
             n_orders |-> Count(15), n_visitors |-> Count(50)]
      [] c = "lose" ->
            [t |-> "dict", variation_id |-> ID(i),
             net_revenue_per_visitor |-> Revenue(Some(100), Some(-30)),
             n_orders |-> Count(15), n_visitors |-> Count(50)]

\* The feed: one record per variation that has one, in variation order
RECURSIVE BuildFeed(_, _)
BuildFeed(choice, i) ==
    IF i > Len(choice) THEN <<>>
    ELSE IF choice[i] = "norec" THEN BuildFeed(choice, i + 1)
    ELSE <<FeedRecord(i, choice[i])>> \o BuildFeed(choice, i + 1)

Tuples(S, n) == [1..n -> S]

InitMain ==
    /\ \E n \in 0..MaxVars :
           \E control \in Tuples(BOOLEAN, n), choice \in Tuples(FeedChoices, n) :
               /\ variations = [i \in 1..n |-> [id |-> ID(i), isControl |-> control[i]]]
               /\ metrics = BuildFeed(choice, 1)
    /\ days \in MainDays
    /\ run = NoRun
    /\ p2bb = None
    /\ uplift = None
    /\ total_orders = 0
    /\ total_visitors = 0
    /\ res = NoRes
    /\ stages = <<>>
    /\ found = NoFound
    /\ grouped = <<>>
    /\ segments = <<>>
    /\ rec = NoRec
    /\ proj = NoProj
    /\ fails = {}
    /\ req = [pc |-> "idle"]
    /\ experiments = <<>>
    /\ test_cards = <<>>

\* everything but the outcome of the last run
main_frame == <<p2bb, uplift, days, total_orders, total_visitors, res,
                variations, metrics, stages, found,
                grouped, segments, rec, proj,
                   fails, req, experiments, test_cards>>

RunVerdict ==
    /\ run = NoRun
    /\ run' = verdict_main(variations, metrics, days)
    /\ UNCHANGED main_frame

RunRollout ==
    /\ run = NoRun
    /\ run' = rollout_main(variations, metrics, days)
    /\ UNCHANGED main_frame

RunDebrief ==
    /\ run = NoRun
    /\ run' = debrief_main(variations, metrics, days)
    /\ UNCHANGED main_frame

\* api.get_overview_analytics either returns the feed or raises
RunPortfolio ==
    /\ run = NoRun
    /\ \E fetched \in BOOLEAN :
           run' = portfolio_main(variations, metrics, days, fetched)
    /\ UNCHANGED main_frame

RunFunnel ==
    /\ run = NoRun
    /\ run' = funnel_main(variations, metrics)
    /\ UNCHANGED main_frame

RunSpotlight ==
    /\ run = NoRun
    /\ run' = spotlight_main(variations, metrics)
    /\ UNCHANGED main_frame

RunImpact ==
    /\ run = NoRun
    /\ run' = impact_main(variations, metrics)
    /\ UNCHANGED main_frame

NextMain ==
    \/ RunVerdict
    \/ RunRollout
    \/ RunDebrief
    \/ RunPortfolio
    \/ RunFunnel
    \/ RunSpotlight
    \/ RunImpact

SpecMain == InitMain /\ [][NextMain]_vars

--------------------------------------------------------------------------
(* Claims on the tools' runs, checked under SpecMain *)

VerdictTools == {"verdict", "rollout", "debrief", "portfolio"}

\* not exactly one control, or no non-control variation
Malformed(vs) ==
    \/ Cardinality({i \in 1..Len(vs) : vs[i].isControl}) # 1
    \/ \A i \in 1..Len(vs) : vs[i].isControl

\* C7: an experiment whose variation list does not hold exactly one control
\* and at least one non-control variation is rejected as a structural error
\* before classification: no tool that issues verdicts (verdict, rollout,
\* debrief, portfolio) reports TOO EARLY or any other verdict for it.
C7_MalformedRejected ==
    (run.tool \in VerdictTools /\ Malformed(variations)) =>
        /\ run.status # "ok"
        /\ run.verdict \notin Verdicts

\* The uplift pick_best_variant reads for the i-th non-control variation
VariantUplift(i) ==
    get_metric_uplift(metrics, primary_revenue_metric(metrics),
                      find_variants(variations)[i].id)

VariantsWithUplift ==
    {i \in 1..Len(find_variants(variations)) : VariantUplift(i) # None}

\* C8: pick_best_variant returns the variant of greatest uplift among the
\* variants whose uplift is present, the first in list order when several
\* share the greatest uplift, and absent exactly when no variant has uplift.
C8_PickBestVariant ==
    run.pick # "n/a" =>
        /\ run.picked = None <=> VariantsWithUplift = {}
        /\ run.picked # None =>
               \E i \in VariantsWithUplift :
                   /\ run.picked = find_variants(variations)[i]
                   /\ \A j \in VariantsWithUplift :
                          /\ Val(VariantUplift(j)) <= Val(VariantUplift(i))
                          /\ j < i => Val(VariantUplift(j)) < Val(VariantUplift(i))

\* C8 witness: funnel's pick_best_variant met two variants of equal, greatest
\* uplift and returned the first.
C8_Witness ==
    /\ run.tool = "funnel"
    /\ run.pick = "found"
    /\ \E i, j \in VariantsWithUplift :
           /\ i < j
           /\ VariantUplift(i) = VariantUplift(j)
           /\ run.picked = find_variants(variations)[i]

\* C9: when pick_best_variant returns absent, every caller (funnel, spotlight,
\* rollout, debrief, profit-impact) continues the analysis with the first
\* non-control variation in list order instead of stopping with an error.
C9_FallbackToFirstVariant ==
    run.pick = "absent" =>
        /\ run.status = "ok"
        /\ run.best = find_variants(variations)[1]

--------------------------------------------------------------------------
(* funnel.py: the scans over the active funnel stages.  A stage is the     *)
(* dict analyze_funnel builds; the scans read only its "uplift" key, and   *)
(* "metric" tells the stages apart.                                        *)

Stage(i, u) == [t |-> "dict", metric |-> i, uplift |-> u]

stage_direction(u) ==
    IF Val(u) > DIRECTION_DEAD_ZONE THEN "up"
    ELSE IF Val(u) < -DIRECTION_DEAD_ZONE THEN "down"
    ELSE "flat"

\* a scan in which every stage, flat or not, becomes the previous direction
RECURSIVE find_breakpoint_scan_flat_tracked(_, _, _)
find_breakpoint_scan_flat_tracked(ss, i, prev_direction) ==
    IF i > Len(ss) THEN None
    ELSE IF ss[i].uplift = None
         THEN find_breakpoint_scan_flat_tracked(ss, i + 1, prev_direction)
    ELSE LET direction == stage_direction(ss[i].uplift) IN
         IF /\ prev_direction # "none"
            /\ direction # prev_direction
            /\ direction # "flat"
            /\ prev_direction # "flat"
         THEN ss[i]
         ELSE find_breakpoint_scan_flat_tracked(ss, i + 1, direction)

find_breakpoint_flat_tracked(ss) ==
    find_breakpoint_scan_flat_tracked(ss, 1, "none")

\* prev_direction "none" is Python's None
RECURSIVE find_breakpoint_scan(_, _, _)
find_breakpoint_scan(ss, i, prev_direction) ==
    IF i > Len(ss) THEN None
    ELSE IF ss[i].uplift = None
         THEN find_breakpoint_scan(ss, i + 1, prev_direction)
    ELSE LET direction == stage_direction(ss[i].uplift) IN
         IF /\ prev_direction # "none"
            /\ direction # prev_direction
            /\ direction # "flat"
            /\ prev_direction # "flat"
         THEN ss[i]
         ELSE find_breakpoint_scan(ss, i + 1,
                  IF direction # "flat" THEN direction ELSE prev_direction)

find_breakpoint(ss) == find_breakpoint_scan(ss, 1, "none")

\* a scan that lets a later stage of equal uplift replace the best
RECURSIVE find_biggest_gain_loop_last_tie(_, _, _)
find_biggest_gain_loop_last_tie(ss, i, best) ==
    IF i > Len(ss) THEN best
    ELSE IF /\ ss[i].uplift # None
            /\ Val(ss[i].uplift) > 0
            /\ (best = None \/ Val(ss[i].uplift) >= Val(best.uplift))
         THEN find_biggest_gain_loop_last_tie(ss, i + 1, ss[i])
         ELSE find_biggest_gain_loop_last_tie(ss, i + 1, best)

find_biggest_gain_last_tie(ss) == find_biggest_gain_loop_last_tie(ss, 1, None)

RECURSIVE find_biggest_gain_loop(_, _, _)
find_biggest_gain_loop(ss, i, best) ==
    IF i > Len(ss) THEN best
    ELSE IF /\ ss[i].uplift # None
            /\ Val(ss[i].uplift) > 0
            /\ (best = None \/ Val(ss[i].uplift) > Val(best.uplift))
         THEN find_biggest_gain_loop(ss, i + 1, ss[i])
         ELSE find_biggest_gain_loop(ss, i + 1, best)

find_biggest_gain(ss) == find_biggest_gain_loop(ss, 1, None)

RECURSIVE find_biggest_drop_loop(_, _, _)
find_biggest_drop_loop(ss, i, worst) ==
    IF i > Len(ss) THEN worst
    ELSE IF /\ ss[i].uplift # None
            /\ Val(ss[i].uplift) < 0
            /\ (worst = None \/ Val(ss[i].uplift) < Val(worst.uplift))
         THEN find_biggest_drop_loop(ss, i + 1, ss[i])
         ELSE find_biggest_drop_loop(ss, i + 1, worst)

\* a variant that remembers its last call in module-level state and finds
\* nothing when called again
find_biggest_drop_remembered(ss) ==
    IF found.fn = "find_biggest_drop" THEN None
    ELSE find_biggest_drop_loop(ss, 1, None)

find_biggest_drop(ss) == find_biggest_drop_loop(ss, 1, None)

--------------------------------------------------------------------------
(* SpecFunnel: a list of active stages, then one scan over it.             *)

MaxStages == 4

StageUplifts == {None} \cup {Some(x) : x \in {-80, -30, -6, -5, 0, 1, 5, 6, 50, 100}}

InitFunnel ==
    /\ \E n \in 0..MaxStages :
           \E us \in Tuples(StageUplifts, n) :
               stages = [i \in 1..n |-> Stage(i, us[i])]
    /\ found = NoFound
    /\ grouped = <<>>
    /\ segments = <<>>
    /\ rec = NoRec
    /\ proj = NoProj
    /\ fails = {}
    /\ req = [pc |-> "idle"]
    /\ experiments = <<>>
    /\ test_cards = <<>>
    /\ p2bb = None
    /\ uplift = None
    /\ days = 0
    /\ total_orders = 0
    /\ total_visitors = 0
    /\ res = NoRes
    /\ variations = <<>>
    /\ metrics = <<>>
    /\ run = NoRun

\* everything but the outcome of the last scan
funnel_frame == <<p2bb, uplift, days, total_orders, total_visitors, res,
                  variations, metrics, run, stages,
                  grouped, segments, rec, proj,
                   fails, req, experiments, test_cards>>

FindBreakpoint ==
    /\ found' = [fn |-> "find_breakpoint", stage |-> find_breakpoint(stages)]
    /\ UNCHANGED funnel_frame

FindBiggestGain ==
    /\ found' = [fn |-> "find_biggest_gain", stage |-> find_biggest_gain(stages)]
    /\ UNCHANGED funnel_frame

FindBiggestDrop ==
    /\ found' = [fn |-> "find_biggest_drop", stage |-> find_biggest_drop(stages)]
    /\ UNCHANGED funnel_frame

NextFunnel ==
    \/ FindBreakpoint
    \/ FindBiggestGain
    \/ FindBiggestDrop

SpecFunnel == InitFunnel /\ [][NextFunnel]_vars

--------------------------------------------------------------------------
(* Claim about the breakpoint scan.                                        *)

StageUpliftsAre(us) ==
    /\ Len(stages) = Len(us)
    /\ \A i \in 1..Len(us) : stages[i].uplift = Some(us[i])

NonFlat(i) ==
    /\ stages[i].uplift # None
    /\ Abs(Val(stages[i].uplift)) > 5

Rising(i) == Val(stages[i].uplift) > 0

\* stage i is non-flat and the nearest non-flat stage before it points the
\* other way
Flips(i) ==
    /\ NonFlat(i)
    /\ \E j \in 1..(i - 1) :
           /\ NonFlat(j)
           /\ \A k \in (j + 1)..(i - 1) : ~NonFlat(k)
           /\ Rising(j) # Rising(i)

\* C10: find_breakpoint returns the first non-flat stage whose direction is
\* opposite to that of the most recent earlier non-flat stage, stages with
\* absent uplift being ignored and stages with |uplift| <= 0.005 being
\* transparent; it returns absent exactly when all non-flat stages share one
\* direction (or there is none); uplifts [+0.10, +0.05, -0.03, -0.08] and
\* [+0.10, +0.001, -0.08] both yield the third stage.
C10_FindBreakpoint ==
    found.fn = "find_breakpoint" =>
        /\ found.stage = None <=> ~ \E i \in 1..Len(stages) : Flips(i)
        /\ found.stage = None <=>
               \A i, j \in 1..Len(stages) :
                   NonFlat(i) /\ NonFlat(j) => Rising(i) = Rising(j)
        /\ found.stage # None =>
               \E i \in 1..Len(stages) :
                   /\ Flips(i)
                   /\ \A j \in 1..(i - 1) : ~Flips(j)
                   /\ found.stage = stages[i]
        /\ StageUpliftsAre(<<100, 50, -30, -80>>) => found.stage = stages[3]
        /\ StageUpliftsAre(<<100, 1, -80>>) => found.stage = stages[3]

C10_Witness ==
    /\ found.fn = "find_breakpoint"
    /\ StageUpliftsAre(<<100, 1, -80>>)
    /\ found.stage = stages[3]

--------------------------------------------------------------------------
(* Claims about the extremum scans.                                        *)

Gains == {i \in 1..Len(stages) :
             stages[i].uplift # None /\ Val(stages[i].uplift) > 0}

Drops == {i \in 1..Len(stages) :
             stages[i].uplift # None /\ Val(stages[i].uplift) < 0}

\* C11: find_biggest_gain returns the earliest stage of greatest uplift among
\* the stages whose uplift is present and > 0, and absent when there is none;
\* find_biggest_drop returns a stage of smallest uplift among those whose
\* uplift is present and < 0, and absent when there is none; neither returns
\* a stage whose uplift is 0 or absent.
C11_BiggestGainAndDrop ==
    /\ found.fn = "find_biggest_gain" =>
           /\ found.stage = None <=> Gains = {}
           /\ found.stage # None =>
                  \E i \in Gains :
                      /\ found.stage = stages[i]
                      /\ \A j \in Gains :
                             /\ Val(stages[j].uplift) <= Val(stages[i].uplift)
                             /\ j < i => Val(stages[j].uplift) < Val(stages[i].uplift)
    /\ found.fn = "find_biggest_drop" =>
           /\ found.stage = None <=> Drops = {}
           /\ found.stage # None =>
                  \E i \in Drops :
                      /\ found.stage = stages[i]
                      /\ \A j \in Drops :
                             Val(stages[j].uplift) >= Val(stages[i].uplift)
    /\ found.fn \in {"find_biggest_gain", "find_biggest_drop"} /\ found.stage # None =>
           /\ found.stage.uplift # None
           /\ Val(found.stage.uplift) # 0

\* two stages tie for the greatest gain, beside a zero and an absent uplift
C11_Witness ==
    /\ found.fn = "find_biggest_gain"
    /\ Len(stages) = 4
    /\ stages[1].uplift = Some(0)
    /\ stages[2].uplift = Some(50)
    /\ stages[3].uplift = None
    /\ stages[4].uplift = Some(50)
    /\ found.stage = stages[2]

--------------------------------------------------------------------------
(* funnel.py: the stage table built from the feed, and the part of main    *)
(* that scans its active stages.                                           *)

FUNNEL_STAGES ==
    << [metric |-> "add_to_cart_rate", label |-> "Add to Cart"],
       [metric |-> "checkout_begin_rate", label |-> "Begin Checkout"],
       [metric |-> "checkout_enter_contact_info_rate", label |-> "Enter Contact Info"],
       [metric |-> "checkout_address_submitted_rate", label |-> "Submit Address"],
       [metric |-> "conversion_rate", label |-> "Purchase"] >>

\* a table that also counts a stage as having data when only its uplift is there
analyze_funnel_uplift_is_data(ms, control_id, variant_id) ==
    [k \in 1..Len(FUNNEL_STAGES) |->
        LET metric_name == FUNNEL_STAGES[k].metric
            control_val == get_metric_value(ms, metric_name, control_id)
            variant_val == get_metric_value(ms, metric_name, variant_id)
            up == get_metric_uplift(ms, metric_name, variant_id)
        IN [t |-> "dict",
            metric |-> metric_name,
            label |-> FUNNEL_STAGES[k].label,
            control |-> control_val,
            variant |-> variant_val,
            uplift |-> up,
            confidence |-> get_metric_confidence(ms, metric_name, variant_id),
            has_data |-> control_val # None \/ variant_val # None \/ up # None]]

analyze_funnel(ms, control_id, variant_id) ==
    [k \in 1..Len(FUNNEL_STAGES) |->
        LET metric_name == FUNNEL_STAGES[k].metric
            control_val == get_metric_value(ms, metric_name, control_id)
            variant_val == get_metric_value(ms, metric_name, variant_id)
        IN [t |-> "dict",
            metric |-> metric_name,
            label |-> FUNNEL_STAGES[k].label,
            control |-> control_val,
            variant |-> variant_val,
            uplift |-> get_metric_uplift(ms, metric_name, variant_id),
            confidence |-> get_metric_confidence(ms, metric_name, variant_id),
            has_data |-> control_val # None \/ variant_val # None]]

\* [s for s in stages if s["has_data"]]
active_stages(ss) == SelectSeq(ss, LAMBDA q : q.has_data)

--------------------------------------------------------------------------
(* SpecDiagnose: a feed carrying funnel metrics for a control, a variant   *)
(* and some other variants, and one run of the funnel diagnosis on it.     *)

MaxOther == 1

\* The record of variation i in the feed: the control (1), the variant (2)
\* or another variant, with every stage rising.  choice says, per stage,
\* what the feed holds for the control and the variant.
FunnelFeed(choice, i) ==
    LET names == {FUNNEL_STAGES[k].metric : k \in 1..Len(FUNNEL_STAGES)}
        at(n) == choice[CHOOSE k \in 1..Len(FUNNEL_STAGES) : FUNNEL_STAGES[k].metric = n]
        has(c) == CASE i = 1 -> c \in {"control", "up", "down"}
                    [] i = 2 -> c \in {"up", "down", "ghost_up", "ghost_down"}
                    [] OTHER -> TRUE
        rate(x, u) == [t |-> "dict", value |-> x, p2bb |-> Some(900),
                       uplift |-> [t |-> "dict", value |-> Some(u)]]
        cell(c) == CASE i = 1 -> [t |-> "dict", value |-> Some(50)]
                     [] i = 2 /\ c = "up" -> rate(Some(55), 100)
                     [] i = 2 /\ c = "down" -> rate(Some(46), -80)
                     [] i = 2 /\ c = "ghost_up" -> rate(None, 100)
                     [] i = 2 /\ c = "ghost_down" -> rate(None, -80)
                     [] OTHER -> rate(Some(60), 50)
    IN  [key \in {"t", "variation_id"} \cup {n \in names : has(at(n))} |->
            IF key = "t" THEN "dict"
            ELSE IF key = "variation_id" THEN ID(i)
            ELSE cell(at(key))]

InitDiagnose ==
    /\ \E n \in 0..MaxOther :
           \E choice \in Tuples({"none", "control", "up", "down", "ghost_up", "ghost_down"},
                                 Len(FUNNEL_STAGES)) :
               /\ variations = [i \in 1..(2 + n) |-> [id |-> ID(i), isControl |-> i = 1]]
               /\ metrics = [i \in 1..n |-> FunnelFeed(choice, 2 + i)]
                                \o <<FunnelFeed(choice, 1), FunnelFeed(choice, 2)>>
    /\ run = NoRun
    /\ stages = <<>>
    /\ found = NoFound
    /\ grouped = <<>>
    /\ segments = <<>>
    /\ rec = NoRec
    /\ proj = NoProj
    /\ fails = {}
    /\ req = [pc |-> "idle"]
    /\ experiments = <<>>
    /\ test_cards = <<>>
    /\ p2bb = None
    /\ uplift = None
    /\ days = 0
    /\ total_orders = 0
    /\ total_visitors = 0
    /\ res = NoRes

RunDiagnosis ==
    /\ run = NoRun
    /\ run' = funnel_main(variations, metrics)
    /\ IF run'.status = "ok"
       THEN /\ stages' = analyze_funnel(metrics, find_control(variations).id, run'.best.id)
            /\ found' = [fn |-> "diagnose", stage |-> None,
                         biggest_gain |-> find_biggest_gain(active_stages(stages')),
                         biggest_drop |-> find_biggest_drop(active_stages(stages')),
                         breakpoint |-> find_breakpoint(active_stages(stages'))]
       ELSE UNCHANGED <<stages, found>>
    /\ UNCHANGED <<p2bb, uplift, days, total_orders, total_visitors, res,
                   variations, metrics, grouped, segments, rec, proj,
                   fails, req, experiments, test_cards>>

NextDiagnose ==
    \/ RunDiagnosis

SpecDiagnose == InitDiagnose /\ [][NextDiagnose]_vars

--------------------------------------------------------------------------
(* Claim about the stage table.                                            *)

StageOrder ==
    << "add_to_cart_rate", "checkout_begin_rate", "checkout_enter_contact_info_rate",
       "checkout_address_submitted_rate", "conversion_rate" >>

Reported == {found.biggest_gain, found.biggest_drop, found.breakpoint}

\* C12: analyze_funnel returns one entry per stage of the fixed sequence
\* add-to-cart, begin-checkout, enter-contact-info, submit-address, purchase,
\* in that order, with has_data true exactly when the control value or the
\* variant value is present; a stage with has_data false is never reported
\* as biggest gain, biggest drop or breakpoint, even when its uplift is
\* present.
C12_AnalyzeFunnel ==
    found.fn = "diagnose" =>
        /\ Len(stages) = 5
        /\ \A k \in 1..5 :
               /\ stages[k].metric = StageOrder[k]
               /\ stages[k].control = get_metric_value(metrics, StageOrder[k], ID(1))
               /\ stages[k].variant = get_metric_value(metrics, StageOrder[k], ID(2))
               /\ stages[k].has_data <=>
                      (stages[k].control # None \/ stages[k].variant # None)
        /\ \A r \in Reported : r # None => r.has_data
        /\ \A k \in 1..5 : ~stages[k].has_data => stages[k] \notin Reported

\* the only rising stage has an uplift but no value on either side
C12_Witness ==
    /\ found.fn = "diagnose"
    /\ stages[1].uplift = Some(100)
    /\ ~stages[1].has_data
    /\ stages[2].has_data
    /\ stages[2].uplift = Some(-80)
    /\ found.biggest_gain = None
    /\ found.biggest_drop = stages[2]

--------------------------------------------------------------------------
(* Segment analysis: spotlight.py, rollout.py and the quick-check of       *)
(* verdict.py.  Money is a fraction [num, den].  A per-visitor value is in  *)
(* cents and an uplift in thousandths, so their product counts 1/100000 of *)
(* a dollar; den is the runtime the daily rate was divided by.             *)

Money(n, d) == [num |-> n, den |-> d]
NoMoney == Money(0, 1)
AbsLess(a, b) == Abs(a.num) * b.den < Abs(b.num) * a.den

\* val = get_metric_value(...); return int(val) if val else 0
get_variation_visitors(ms, variation_id) ==
    LET val == get_metric_value(ms, "n_visitors", variation_id)
    IN IF val = None \/ Val(val) = 0 THEN 0 ELSE Val(val)

\* a variant that drops the sign of the uplift
compute_revenue_opportunity_abs_uplift(seg_visitors, u, control_rpv, d) ==
    IF u = None \/ control_rpv = None \/ d <= 0 \/ seg_visitors <= 0 THEN NoMoney
    ELSE Money(seg_visitors * Val(control_rpv) * Abs(Val(u)) * 365, d)

compute_revenue_opportunity(seg_visitors, u, control_rpv, d) ==
    IF u = None \/ control_rpv = None \/ d <= 0 \/ seg_visitors <= 0 THEN NoMoney
    ELSE Money(seg_visitors * Val(control_rpv) * Val(u) * 365, d)

spotlight_contradiction(overall_uplift, seg_uplift) ==
    /\ overall_uplift # None
    /\ seg_uplift # None
    /\ \/ Val(overall_uplift) > NEUTRAL_LIFT_THRESHOLD
          /\ Val(seg_uplift) < -NEUTRAL_LIFT_THRESHOLD
       \/ Val(overall_uplift) < -NEUTRAL_LIFT_THRESHOLD
          /\ Val(seg_uplift) > NEUTRAL_LIFT_THRESHOLD

rollout_contradiction(overall_uplift, seg_uplift) ==
    /\ overall_uplift # None
    /\ seg_uplift # None
    /\ \/ Val(overall_uplift) > NEUTRAL_LIFT_THRESHOLD
          /\ Val(seg_uplift) < -NEUTRAL_LIFT_THRESHOLD
       \/ Val(overall_uplift) < -NEUTRAL_LIFT_THRESHOLD
          /\ Val(seg_uplift) > NEUTRAL_LIFT_THRESHOLD

\* verdict.py compares the verdicts, not the uplifts
verdict_contradiction(best_verdict, seg_verdict) ==
    \/ best_verdict = "WINNER" /\ seg_verdict = "LOSER"
    \/ best_verdict = "LOSER" /\ seg_verdict = "WINNER"

\* one entry of spotlight.py's all_segments
spotlight_segment(g, rev_metric, best_id, control_id, d, overall_uplift, control_rpv) ==
    LET seg_uplift == get_metric_uplift(g.seg_m, rev_metric, best_id)
        seg_conf == get_metric_confidence(g.seg_m, rev_metric, best_id)
        total_seg_visitors == get_variation_visitors(g.seg_m, best_id)
                                  + get_variation_visitors(g.seg_m, control_id)
    IN [name |-> g.name,
        verdict |-> spotlight_segment_verdict(seg_conf, seg_uplift, d),
        uplift |-> seg_uplift,
        confidence |-> seg_conf,
        visitors |-> total_seg_visitors,
        revenue_opportunity |->
            compute_revenue_opportunity(total_seg_visitors, seg_uplift, control_rpv, d),
        contradiction |-> spotlight_contradiction(overall_uplift, seg_uplift)]

\* one entry of rollout.py's segment_results
rollout_segment(g, rev_metric, best_id, d, overall_uplift) ==
    LET seg_uplift == get_metric_uplift(g.seg_m, rev_metric, best_id)
        seg_conf == get_metric_confidence(g.seg_m, rev_metric, best_id)
    IN [name |-> g.name,
        verdict |-> rollout_segment_verdict(seg_conf, seg_uplift, d),
        uplift |-> seg_uplift,
        confidence |-> seg_conf,
        contradiction |-> rollout_contradiction(overall_uplift, seg_uplift)]

\* one entry of verdict.py's segment_results
verdict_segment(g, primary_metric, best_id, d, best_verdict) ==
    LET seg_p2bb == get_metric_confidence(g.seg_m, primary_metric, best_id)
        seg_uplift == get_metric_uplift(g.seg_m, primary_metric, best_id)
        seg_verdict == verdict_main_seg_verdict(seg_p2bb, seg_uplift, d)
    IN [name |-> g.name,
        verdict |-> seg_verdict,
        uplift |-> seg_uplift,
        confidence |-> seg_p2bb,
        visitors |-> get_variation_visitors(g.seg_m, best_id),
        contradiction |-> verdict_contradiction(best_verdict, seg_verdict)]

\* an ordering that puts a segment before the earlier segments of equal key
RECURSIVE insert_by_opportunity_before_equal(_, _)
insert_by_opportunity_before_equal(sorted, x) ==
    IF sorted = <<>> THEN <<x>>
    ELSE IF ~AbsLess(x.revenue_opportunity, Head(sorted).revenue_opportunity)
         THEN <<x>> \o sorted
         ELSE <<Head(sorted)>> \o insert_by_opportunity_before_equal(Tail(sorted), x)

RECURSIVE sort_by_opportunity_unstable(_)
sort_by_opportunity_unstable(segs) ==
    IF segs = <<>> THEN <<>>
    ELSE insert_by_opportunity_before_equal(
             sort_by_opportunity_unstable(SubSeq(segs, 1, Len(segs) - 1)),
             segs[Len(segs)])

\* all_segments.sort(key=lambda s: abs(s["revenue_opportunity"]), reverse=True):
\* list.sort is stable, also with reverse=True
RECURSIVE insert_by_opportunity(_, _)
insert_by_opportunity(sorted, x) ==
    IF sorted = <<>> THEN <<x>>
    ELSE IF AbsLess(Head(sorted).revenue_opportunity, x.revenue_opportunity)
         THEN <<x>> \o sorted
         ELSE <<Head(sorted)>> \o insert_by_opportunity(Tail(sorted), x)

RECURSIVE sort_by_opportunity(_)
sort_by_opportunity(segs) ==
    IF segs = <<>> THEN <<>>
    ELSE insert_by_opportunity(sort_by_opportunity(SubSeq(segs, 1, Len(segs) - 1)),
                               segs[Len(segs)])

\* xs[:n]
Take(xs, n) == SubSeq(xs, 1, IF Len(xs) < n THEN Len(xs) ELSE n)
Names(xs) == [i \in 1..Len(xs) |-> xs[i].name]

Rec(action, reason, winner_names, loser_names) ==
    [action |-> action, reason |-> reason,
     winner_names |-> winner_names, loser_names |-> loser_names]

\* a rule list that tests the share of winners before looking for losers
rollout_recommendation_winners_first(segs) ==
    LET winners == SelectSeq(segs, LAMBDA q : q.verdict = "WINNER")
        losers == SelectSeq(segs, LAMBDA q : q.verdict = "LOSER")
        low_data == SelectSeq(segs, LAMBDA q : q.verdict = "LOW DATA")
        total == Len(segs)
    IN IF total = 0 THEN Rec("HOLD", "no segment data", <<>>, <<>>)
       ELSE IF 2 * Len(winners) >= total
            THEN Rec("ROLL OUT", "no losing segments", <<>>, <<>>)
       ELSE IF Len(losers) > 0 /\ Len(winners) > 0
            THEN Rec("SEGMENT-SPECIFIC", "winners and losers",
                     Names(Take(winners, 3)), Names(Take(losers, 3)))
       ELSE IF Len(losers) > 0 /\ Len(winners) = 0
            THEN Rec("DON'T ROLL OUT", "no winning segments", <<>>, <<>>)
       ELSE IF 2 * Len(low_data) > total
            THEN Rec("HOLD", "insufficient data", <<>>, <<>>)
       ELSE Rec("HOLD", "mixed signals", <<>>, <<>>)

\* len(winners) >= total * 0.5 and len(low_data) > total * 0.5, doubled
rollout_recommendation(segs) ==
    LET winners == SelectSeq(segs, LAMBDA q : q.verdict = "WINNER")
        losers == SelectSeq(segs, LAMBDA q : q.verdict = "LOSER")
        low_data == SelectSeq(segs, LAMBDA q : q.verdict = "LOW DATA")
        total == Len(segs)
    IN IF total = 0 THEN Rec("HOLD", "no segment data", <<>>, <<>>)
       ELSE IF Len(losers) = 0 /\ 2 * Len(winners) >= total
            THEN Rec("ROLL OUT", "no losing segments", <<>>, <<>>)
       ELSE IF Len(losers) > 0 /\ Len(winners) > 0
            THEN Rec("SEGMENT-SPECIFIC", "winners and losers",
                     Names(Take(winners, 3)), Names(Take(losers, 3)))
       ELSE IF Len(losers) > 0 /\ Len(winners) = 0
            THEN Rec("DON'T ROLL OUT", "no winning segments", <<>>, <<>>)
       ELSE IF 2 * Len(low_data) > total
            THEN Rec("HOLD", "insufficient data", <<>>, <<>>)
       ELSE Rec("HOLD", "mixed signals", <<>>, <<>>)

\* rollout.py: the recommendation of the brief
\* a variant that asks for caution on any contradiction, losers or not
build_recommendation_any_contradiction(verdict, segment_results, overall_uplift) ==
    LET has_contradictions == \E i \in 1..Len(segment_results) :
                                  segment_results[i].contradiction
        losers == SelectSeq(segment_results, LAMBDA q : q.verdict = "LOSER")
    IN IF verdict = "WINNER"
       THEN IF has_contradictions
            THEN Rec("ROLL OUT WITH CAUTION", "contradiction", <<>>,
                     Names(Take(losers, 2)))
            ELSE Rec("ROLL OUT", "strong signal", <<>>, <<>>)
       ELSE IF verdict = "LOSER" THEN Rec("END TEST", "hurting", <<>>, <<>>)
       ELSE IF verdict = "FLAT"
            THEN Rec("END TEST - TRY SOMETHING DIFFERENT", "no impact", <<>>, <<>>)
       ELSE IF verdict = "KEEP RUNNING"
            THEN Rec("KEEP RUNNING", "not conclusive", <<>>, <<>>)
       ELSE Rec("WAIT", "insufficient data", <<>>, <<>>)

build_recommendation(verdict, segment_results, overall_uplift) ==
    LET has_contradictions == \E i \in 1..Len(segment_results) :
                                  segment_results[i].contradiction
        losers == SelectSeq(segment_results, LAMBDA q : q.verdict = "LOSER")
    IN IF verdict = "WINNER"
       THEN IF has_contradictions /\ losers # <<>>
            THEN Rec("ROLL OUT WITH CAUTION", "contradiction", <<>>,
                     Names(Take(losers, 2)))
            ELSE Rec("ROLL OUT", "strong signal", <<>>, <<>>)
       ELSE IF verdict = "LOSER" THEN Rec("END TEST", "hurting", <<>>, <<>>)
       ELSE IF verdict = "FLAT"
            THEN Rec("END TEST - TRY SOMETHING DIFFERENT", "no impact", <<>>, <<>>)
       ELSE IF verdict = "KEEP RUNNING"
            THEN Rec("KEEP RUNNING", "not conclusive", <<>>, <<>>)
       ELSE Rec("WAIT", "insufficient data", <<>>, <<>>)

--------------------------------------------------------------------------
(* The financial projections of impact.py and rollout.py, in exact         *)
(* fractions kept in lowest terms.  The per-visitor value is in whole       *)
(* dollars here, so a baseline is in dollars and a projected figure        *)
(* (baseline times an uplift or a CI bound) counts thousandths of a        *)
(* dollar.                                                                 *)

RECURSIVE Gcd(_, _)
Gcd(a, b) == IF b = 0 THEN a ELSE Gcd(b, a % b)

Norm(n, d) == LET g == Gcd(Abs(n), d) IN Money(n \div g, d \div g)
Times(a, n) == Norm(a.num * n, a.den)
Over(a, n) == Norm(a.num, a.den * n)

\* uplift.get("ci_low"), uplift.get("ci_high") of the first matching record
RECURSIVE get_metric_ci_scan(_, _, _, _)
get_metric_ci_scan(ms, metric_name, variation_id, i) ==
    IF i > Len(ms) THEN <<None, None>>
    ELSE LET m == ms[i]
             data == GetOrEmptyDict(m, metric_name)
             up == GetOrEmptyDict(data, "uplift")
         IN IF Get(m, "variation_id") = variation_id /\ IsDict(data) /\ IsDict(up)
            THEN <<Get(up, "ci_low"), Get(up, "ci_high")>>
            ELSE get_metric_ci_scan(ms, metric_name, variation_id, i + 1)

get_metric_ci(ms, metric_name, variation_id) ==
    get_metric_ci_scan(ms, metric_name, variation_id, 1)

\* a variant that does not divide by the runtime
daily_visitors_undivided(visitors, runtime) ==
    IF runtime <= 0 THEN NoMoney ELSE Norm(visitors, 1)

daily_visitors(visitors, runtime) ==
    IF runtime <= 0 THEN NoMoney ELSE Norm(visitors, runtime)

\* Python truthiness of an optional number: neither None nor 0
Truthy(j) == j # None /\ Val(j) # 0

\* a variant that takes a month for four weeks
monthly_of_annual_13(annual) == Over(annual, 13)

\* annual / 12
monthly_of_annual(annual) == Over(annual, 12)

\* expected_annual / 365 if expected_annual else 0
daily_of_annual(expected_annual) ==
    IF expected_annual.num # 0 THEN Over(expected_annual, 365) ELSE NoMoney

\* impact.py main, from the aggregate stats to the opportunity cost; it is
\* reached with control_value and uplift present
impact_projection(ms, metric_name, control_id, best_id, runtime) ==
    LET avg_daily_visitors == IF runtime > 0
                              THEN daily_visitors(get_total_visitors(ms), runtime)
                              ELSE NoMoney
        control_value == get_metric_value(ms, metric_name, control_id)
        up == get_metric_uplift(ms, metric_name, best_id)
        ci == get_metric_ci(ms, metric_name, best_id)
        annual_visitors == Times(avg_daily_visitors, 365)
        annual_baseline == Times(annual_visitors, Val(control_value))
        expected_annual == Times(annual_baseline, Val(up))
        conservative_annual ==
            IF ci[1] # None
            THEN IF Val(ci[1]) > 0 THEN Times(annual_baseline, Val(ci[1])) ELSE NoMoney
            ELSE None
        optimistic_annual ==
            IF ci[2] # None THEN Times(annual_baseline, Val(ci[2])) ELSE None
        daily_impact == daily_of_annual(expected_annual)
    IN [tool |-> "impact",
        avg_daily_visitors |-> avg_daily_visitors,
        annual_baseline |-> annual_baseline,
        expected_annual |-> expected_annual,
        conservative_annual |-> conservative_annual,
        optimistic_annual |-> optimistic_annual,
        expected_monthly |-> monthly_of_annual(expected_annual),
        conservative_monthly |-> IF conservative_annual # None
                                 THEN monthly_of_annual(conservative_annual) ELSE None,
        optimistic_monthly |-> IF optimistic_annual # None
                               THEN monthly_of_annual(optimistic_annual) ELSE None,
        daily_impact |-> daily_impact,
        weekly_impact |-> Times(daily_impact, 7),
        monthly_impact_cost |-> Times(daily_impact, 30)]

\* impact.py main: the break-even lines, each one named by what it says
impact_breakeven(ms, best_id, up, test_type) ==
    LET cr_uplift == get_metric_uplift(ms, "conversion_rate", best_id)
        rpv_uplift == get_metric_uplift(ms, "net_revenue_per_visitor", best_id)
        headroom == Val(rpv_uplift) - Abs(Val(cr_uplift))
        diverging ==
            IF /\ rpv_uplift # None /\ Val(rpv_uplift) > 0
               /\ cr_uplift # None /\ Val(cr_uplift) < 0
            THEN <<"divergence">>
                     \o (IF headroom > 0 THEN <<"headroom">> ELSE <<>>)
                     \o <<"affordable_drop">>
            ELSE <<>>
        pricing == IF test_type = "Pricing" /\ Val(up) > 0
                   THEN <<"pricing_insight">> ELSE <<>>
        breakeven_lines == diverging \o pricing
    IN IF breakeven_lines # <<>> THEN breakeven_lines
       ELSE IF Val(up) > 0 THEN <<"no_divergence">>
       ELSE IF Val(up) < 0 THEN <<"underperforms">>
       ELSE <<"no_difference">>

\* rollout.py main: the financial projections
rollout_projection(ms, rev_metric, control_id, best_id, d) ==
    LET avg_daily_vis == IF d > 0 THEN daily_visitors(get_total_visitors(ms), d)
                         ELSE NoMoney
        control_rpv == get_metric_value(ms, rev_metric, control_id)
        up == get_metric_uplift(ms, rev_metric, best_id)
        ci == get_metric_ci(ms, rev_metric, best_id)
        annual_visitors == Times(avg_daily_vis, 365)
        annual_baseline == Times(annual_visitors, NumOrZero(control_rpv))
        expected_annual == Times(annual_baseline, NumOrZero(up))
        daily_cost == daily_of_annual(expected_annual)
    IN [tool |-> "rollout",
        avg_daily_visitors |-> avg_daily_vis,
        annual_baseline |-> annual_baseline,
        expected_annual |-> expected_annual,
        conservative_annual |-> IF Truthy(ci[1]) /\ Val(ci[1]) > 0
                                THEN Times(annual_baseline, Val(ci[1])) ELSE NoMoney,
        optimistic_annual |-> IF Truthy(ci[2])
                              THEN Times(annual_baseline, Val(ci[2])) ELSE None,
        expected_monthly |-> monthly_of_annual(expected_annual),
        conservative_monthly |-> None,
        optimistic_monthly |-> None,
        daily_impact |-> daily_cost,
        weekly_impact |-> None,
        monthly_impact_cost |-> None]

--------------------------------------------------------------------------
(* The segment loop of the tools.  grouped holds the groups the API would  *)
(* return for every segment type, each tagged with its type; a type in     *)
(* fails is one whose get_segment_analytics call raises.                   *)

SEGMENT_TYPES ==
    << [seg_type |-> "device_type", seg_label |-> "Device"],
       [seg_type |-> "visitor_type", seg_label |-> "Visitor Type"],
       [seg_type |-> "source_channel", seg_label |-> "Traffic Source"] >>

\* a variant whose loop ends at the first segment type that fails
segment_groups_abort_on_failure(gs, fs) ==
    LET of_type(k) ==
            IF \E j \in 1..k : SEGMENT_TYPES[j].seg_type \in fs THEN <<>>
            ELSE SelectSeq(gs, LAMBDA g : g.type = SEGMENT_TYPES[k].seg_type)
    IN of_type(1) \o of_type(2) \o of_type(3)

\* for seg_type, seg_label in SEGMENT_TYPES: try: ... except Exception: the
\* groups the loop body handles, in the order it meets them
segment_groups(gs, fs) ==
    LET of_type(k) ==
            IF SEGMENT_TYPES[k].seg_type \in fs THEN <<>>
            ELSE SelectSeq(gs, LAMBDA g : g.type = SEGMENT_TYPES[k].seg_type)
    IN of_type(1) \o of_type(2) \o of_type(3)

\* debrief.py analyze_segments
analyze_segments(gs, fs, rev_metric, best_id, control_id) ==
    LET handled == segment_groups(gs, fs)
        label(g) == SEGMENT_TYPES[CHOOSE k \in 1..Len(SEGMENT_TYPES) :
                                     SEGMENT_TYPES[k].seg_type = g.type].seg_label
    IN [i \in 1..Len(handled) |->
           [name |-> handled[i].name,
            type |-> label(handled[i]),
            uplift |-> get_metric_uplift(handled[i].seg_m, rev_metric, best_id),
            confidence |-> get_metric_confidence(handled[i].seg_m, rev_metric, best_id),
            visitors |-> get_variation_visitors(handled[i].seg_m, best_id)
                             + get_variation_visitors(handled[i].seg_m, control_id)]]

\* debrief.py generate_insights: each insight by its kind and the segment
\* names it mentions.  "new" in name.lower() holds for the name "New" and
\* "return" in name.lower() for "Returning", of the names the model uses.
generate_insights(segs, overall_uplift) ==
    LET with_data == SelectSeq(segs, LAMBDA q : q.uplift # None)
        u(q) == Val(q.uplift)
        first_max(ss) == ss[CHOOSE i \in 1..Len(ss) :
                               /\ \A j \in 1..Len(ss) : u(ss[j]) <= u(ss[i])
                               /\ \A j \in 1..(i - 1) : u(ss[j]) < u(ss[i])]
        first_min(ss) == ss[CHOOSE i \in 1..Len(ss) :
                               /\ \A j \in 1..Len(ss) : u(ss[j]) >= u(ss[i])
                               /\ \A j \in 1..(i - 1) : u(ss[j]) > u(ss[i])]
        last_min(ss) == ss[CHOOSE i \in 1..Len(ss) :
                              /\ \A j \in 1..Len(ss) : u(ss[j]) >= u(ss[i])
                              /\ \A j \in (i + 1)..Len(ss) : u(ss[j]) > u(ss[i])]
        strongest == first_max(with_data)
        weakest == first_min(with_data)
        insight_1 ==
            IF u(strongest) > NEUTRAL_LIFT_THRESHOLD
            THEN <<[kind |-> "strongest", names |-> <<strongest.name>>]>> ELSE <<>>
        insight_2 ==
            IF overall_uplift = None THEN <<>>
            ELSE IF Val(overall_uplift) > 0 /\ u(weakest) < -NEUTRAL_LIFT_THRESHOLD
            THEN <<[kind |-> "outlier", names |-> <<weakest.name>>]>>
            ELSE IF u(weakest) < -NEUTRAL_LIFT_THRESHOLD
            THEN <<[kind |-> "underperforming", names |-> <<weakest.name>>]>>
            ELSE <<>>
        devices == SelectSeq(with_data, LAMBDA q : q.type = "Device")
        insight_3 ==
            IF Len(devices) >= 2
               /\ Abs(u(first_max(devices)) - u(last_min(devices))) > 50
            THEN <<[kind |-> "device_gap",
                    names |-> <<first_max(devices).name, last_min(devices).name>>]>>
            ELSE <<>>
        visitors == SelectSeq(with_data, LAMBDA q : q.type = "Visitor Type")
        new == SelectSeq(visitors, LAMBDA q : q.name = "New")
        returning == SelectSeq(visitors, LAMBDA q : q.name = "Returning")
        insight_4 ==
            IF Len(visitors) >= 2 /\ new # <<>> /\ returning # <<>>
               /\ Abs(u(new[1]) - u(returning[1])) > 30
            THEN IF u(new[1]) > u(returning[1])
                 THEN <<[kind |-> "new_over_returning", names |-> <<>>]>>
                 ELSE <<[kind |-> "returning_over_new", names |-> <<>>]>>
            ELSE <<>>
        sources == SelectSeq(with_data, LAMBDA q : q.type = "Traffic Source")
        positive_sources == SelectSeq(sources, LAMBDA q : u(q) > NEUTRAL_LIFT_THRESHOLD)
        negative_sources == SelectSeq(sources, LAMBDA q : u(q) < -NEUTRAL_LIFT_THRESHOLD)
        insight_5 ==
            IF positive_sources # <<>> /\ negative_sources # <<>>
            THEN <<[kind |-> "source_split",
                    names |-> Names(Take(positive_sources, 2))
                                  \o Names(Take(negative_sources, 2))]>>
            ELSE <<>>
    IN IF segs = <<>> \/ with_data = <<>> THEN <<>>
       ELSE insight_1 \o insight_2 \o insight_3 \o insight_4 \o insight_5

--------------------------------------------------------------------------
(* SpecSegments: an experiment of one control and one variant, its         *)
(* overview feed, the grouped segment feed, and one run of the segment     *)
(* analysis of one of the three tools.                                     *)

MaxSegments == 5


OverviewFeed(control_value, p, u) ==
    << [t |-> "dict", variation_id |-> ID(1),
        net_revenue_per_visitor |-> [t |-> "dict", value |-> control_value],
        n_orders |-> Count(15), n_visitors |-> Count(50)],
       [t |-> "dict", variation_id |-> ID(2),
        net_revenue_per_visitor |-> Revenue(p, u),
        n_orders |-> Count(15), n_visitors |-> Count(50)] >>

\* the records of one audience: the control's and the variant's
SegmentFeed(p, u, variant_visitors) ==
    IF variant_visitors = 0
    THEN << [t |-> "dict", variation_id |-> ID(1)],
            [t |-> "dict", variation_id |-> ID(2),
             net_revenue_per_visitor |-> Revenue(p, u)] >>
    ELSE << [t |-> "dict", variation_id |-> ID(1), n_visitors |-> Count(1)],
            [t |-> "dict", variation_id |-> ID(2),
             net_revenue_per_visitor |-> Revenue(p, u),
             n_visitors |-> Count(variant_visitors)] >>

ChosenFeed(c) ==
    CASE c = "win" -> SegmentFeed(Some(900), Some(50), 1)
      [] c = "win_big" -> SegmentFeed(Some(900), Some(50), 6)
      [] c = "lose" -> SegmentFeed(Some(100), Some(-50), 1)
      [] c = "lowdata" -> SegmentFeed(None, None, 1)
      [] c = "weak_down" -> SegmentFeed(Some(500), Some(-21), 1)

InitSegments ==
    /\ variations = <<[id |-> ID(1), isControl |-> TRUE],
                      [id |-> ID(2), isControl |-> FALSE]>>
    /\ \/ \E cv \in {None, Some(200)},
             p \in {Some(100), Some(900)},
             u \in {None} \cup {Some(x) : x \in {-50, -21, -20, 0, 20, 21, 50}},
             sp \in {None, Some(100), Some(500), Some(900)},
             su \in {None} \cup {Some(x) : x \in {-50, -21, -20, 20, 21, 50}},
             sv \in {0, 1} :
              /\ metrics = OverviewFeed(cv, p, u)
              /\ grouped = <<[name |-> ID(1), type |-> "device_type",
                              seg_m |-> SegmentFeed(sp, su, sv)]>>
              /\ days \in {0, FLAT_MIN_DAYS}
       \/ \E n \in 0..MaxSegments :
              \E choice \in Tuples({"win", "win_big", "lose", "lowdata", "weak_down"}, n) :
                  /\ metrics = OverviewFeed(Some(200), Some(900), Some(50))
                  /\ grouped = [i \in 1..n |->
                                 [name |-> ID(i), type |-> "device_type",
                                  seg_m |-> ChosenFeed(choice[i])]]
                  /\ days = FLAT_MIN_DAYS
    /\ run = NoRun
    /\ segments = <<>>
    /\ rec = NoRec
    /\ proj = NoProj
    /\ fails = {}
    /\ req = [pc |-> "idle"]
    /\ experiments = <<>>
    /\ test_cards = <<>>
    /\ p2bb = None
    /\ uplift = None
    /\ total_orders = 0
    /\ total_visitors = 0
    /\ res = NoRes
    /\ stages = <<>>
    /\ found = NoFound

\* spotlight.py main: the segment loop, the sort and the recommendation
SpotlightSegments ==
    /\ run = NoRun
    /\ run' = spotlight_main(variations, metrics)
    /\ IF run'.status = "ok"
       THEN LET rev_metric == primary_revenue_metric(metrics)
                best_id == run'.best.id
                control_id == find_control(variations).id
                overall_uplift == get_metric_uplift(metrics, rev_metric, best_id)
                control_rpv == get_metric_value(metrics, rev_metric, control_id)
                handled == segment_groups(grouped, fails)
                all_segments == [i \in 1..Len(handled) |->
                                    spotlight_segment(handled[i], rev_metric, best_id,
                                        control_id, days, overall_uplift, control_rpv)]
            IN /\ segments' = sort_by_opportunity(all_segments)
               /\ rec' = rollout_recommendation(segments')
       ELSE UNCHANGED <<segments, rec>>
    /\ UNCHANGED <<p2bb, uplift, days, total_orders, total_visitors, res,
                   variations, metrics, stages, found, grouped, proj,
                   fails, req, experiments, test_cards>>

\* rollout.py main: the projections, the segment loop and the recommendation
RolloutBrief ==
    /\ run = NoRun
    /\ run' = rollout_main(variations, metrics, days)
    /\ IF run'.status = "ok"
       THEN LET rev_metric == primary_revenue_metric(metrics)
                best_id == run'.best.id
                overall_uplift == get_metric_uplift(metrics, rev_metric, best_id)
                handled == segment_groups(grouped, fails)
            IN /\ proj' = rollout_projection(metrics, rev_metric,
                                             find_control(variations).id, best_id, days)
               /\ segments' = [i \in 1..Len(handled) |->
                                  rollout_segment(handled[i], rev_metric, best_id,
                                                  days, overall_uplift)]
               /\ rec' = build_recommendation(run'.verdict, segments', overall_uplift)
       ELSE UNCHANGED <<proj, segments, rec>>
    /\ UNCHANGED <<p2bb, uplift, days, total_orders, total_visitors, res,
                   variations, metrics, stages, found, grouped,
                   fails, req, experiments, test_cards>>

\* verdict.py main: the device-type quick-check, skipped while too early;
\* a failed fetch leaves one "Error" entry
VerdictSegments ==
    /\ run = NoRun
    /\ run' = verdict_main(variations, metrics, days)
    /\ IF /\ run'.status = "ok"
          /\ ~is_too_early(days, get_total_orders(metrics), get_total_visitors(metrics))
       THEN LET devices == SelectSeq(grouped, LAMBDA g : g.type = "device_type")
            IN segments' =
                   IF "device_type" \in fails
                   THEN <<[name |-> "Error", verdict |-> "N/A", uplift |-> None,
                           confidence |-> None, visitors |-> 0,
                           contradiction |-> FALSE]>>
                   ELSE [i \in 1..Len(devices) |->
                            verdict_segment(devices[i], primary_revenue_metric(metrics),
                                            run'.best.id, days, run'.verdict)]
       ELSE UNCHANGED segments
    /\ UNCHANGED rec
    /\ UNCHANGED <<p2bb, uplift, days, total_orders, total_visitors, res,
                   variations, metrics, stages, found, grouped, proj,
                   fails, req, experiments, test_cards>>

NextSegments ==
    \/ SpotlightSegments
    \/ RolloutBrief
    \/ VerdictSegments

SpecSegments == InitSegments /\ [][NextSegments]_vars

--------------------------------------------------------------------------
(* Claims about the segment analysis.                                      *)

SegmentTools == {"spotlight", "rollout", "verdict"}
OverallUplift == get_metric_uplift(metrics, "net_revenue_per_visitor", ID(2))
ControlRpv == get_metric_value(metrics, "net_revenue_per_visitor", ID(1))

Opposed(overall, seg) ==
    /\ overall # None
    /\ seg # None
    /\ \/ Val(overall) > 20 /\ Val(seg) < -20
       \/ Val(overall) < -20 /\ Val(seg) > 20

\* C13: at every call site that flags segment contradictions (spotlight,
\* rollout, verdict quick-check) a segment is flagged exactly when the
\* overall uplift and the segment uplift are both present and oppose each
\* other beyond 0.02 on both sides.
C13_ContradictionByUplift ==
    run.tool \in SegmentTools =>
        \A i \in 1..Len(segments) :
            segments[i].contradiction <=> Opposed(OverallUplift, segments[i].uplift)

Winners == {i \in 1..Len(segments) : segments[i].verdict = "WINNER"}
Losers == {i \in 1..Len(segments) : segments[i].verdict = "LOSER"}
LowData == {i \in 1..Len(segments) : segments[i].verdict = "LOW DATA"}

ExpectedAction ==
    LET total == Len(segments)
        w == Cardinality(Winners)
        l == Cardinality(Losers)
        ld == Cardinality(LowData)
    IN IF total = 0 THEN <<"HOLD", "no segment data">>
       ELSE IF l = 0 /\ 2 * w >= total THEN <<"ROLL OUT", "no losing segments">>
       ELSE IF w >= 1 /\ l >= 1 THEN <<"SEGMENT-SPECIFIC", "winners and losers">>
       ELSE IF l >= 1 THEN <<"DON'T ROLL OUT", "no winning segments">>
       ELSE IF 2 * ld > total THEN <<"HOLD", "insufficient data">>
       ELSE <<"HOLD", "mixed signals">>

\* C14: rollout_recommendation decides from the counts of segment verdicts,
\* in this order: no losers and winners >= 50% -> ROLL OUT; a winner and a
\* loser -> SEGMENT-SPECIFIC; losers and no winners -> DON'T ROLL OUT;
\* LOW DATA > 50% -> HOLD (insufficient data); otherwise HOLD (mixed
\* signals); an empty list gives HOLD; so ROLL OUT is never returned while a
\* segment is LOSER.
C14_RolloutRecommendation ==
    run.tool = "spotlight" /\ run.status = "ok" =>
        /\ <<rec.action, rec.reason>> = ExpectedAction
        /\ Len(segments) = 0 => rec.action = "HOLD"
        /\ rec.action = "ROLL OUT" => Losers = {}

\* one winner among two segments: the 50% share is enough
C14_Witness ==
    /\ run.tool = "spotlight"
    /\ Len(segments) = 2
    /\ Cardinality(Winners) = 1
    /\ Cardinality(LowData) = 1
    /\ rec.action = "ROLL OUT"

Pos(name) == CHOOSE k \in 1..Len(segments) : segments[k].name = name

\* C15: after ranking, the spotlight segment list is a permutation of the
\* analysed segments in non-increasing order of |revenue opportunity|, equal
\* values keeping their analysis order; the segment-specific recommendation
\* names at most three winners and three losers, those with the largest
\* |revenue opportunity|.
C15_RankedByOpportunity ==
    run.tool = "spotlight" /\ run.status = "ok" =>
        /\ Len(segments) = Len(grouped)
        /\ \A j \in 1..Len(grouped) : \E k \in 1..Len(segments) :
               segments[k].name = grouped[j].name
        /\ \A k \in 1..(Len(segments) - 1) :
               /\ ~AbsLess(segments[k].revenue_opportunity,
                           segments[k + 1].revenue_opportunity)
               /\ ~AbsLess(segments[k + 1].revenue_opportunity,
                           segments[k].revenue_opportunity)
                      => Val(segments[k].name) < Val(segments[k + 1].name)
        /\ rec.action = "SEGMENT-SPECIFIC" =>
               /\ Len(rec.winner_names) <= 3
               /\ Len(rec.loser_names) <= 3
               /\ Len(rec.winner_names) = IF Cardinality(Winners) < 3
                                          THEN Cardinality(Winners) ELSE 3
               /\ Len(rec.loser_names) = IF Cardinality(Losers) < 3
                                         THEN Cardinality(Losers) ELSE 3
               /\ \A a \in 1..Len(rec.winner_names) :
                      /\ Pos(rec.winner_names[a]) \in Winners
                      /\ \A b \in Winners :
                             AbsLess(segments[Pos(rec.winner_names[a])].revenue_opportunity,
                                     segments[b].revenue_opportunity)
                                 => \E c \in 1..Len(rec.winner_names) :
                                        Pos(rec.winner_names[c]) = b
               /\ \A a \in 1..Len(rec.loser_names) :
                      /\ Pos(rec.loser_names[a]) \in Losers
                      /\ \A b \in Losers :
                             AbsLess(segments[Pos(rec.loser_names[a])].revenue_opportunity,
                                     segments[b].revenue_opportunity)
                                 => \E c \in 1..Len(rec.loser_names) :
                                        Pos(rec.loser_names[c]) = b

\* four winners, the large one analysed last, and a loser: the large winner
\* is ranked first and the last of the small winners is left unnamed
C15_Witness ==
    /\ run.tool = "spotlight"
    /\ Len(segments) = 5
    /\ Cardinality(Winners) = 4
    /\ segments[1].name = ID(5)
    /\ segments[5].name = ID(4)
    /\ rec.action = "SEGMENT-SPECIFIC"
    /\ rec.winner_names = <<ID(5), ID(1), ID(2)>>

MoneySign(a) == IF a.num * a.den > 0 THEN 1 ELSE IF a.num * a.den < 0 THEN -1 ELSE 0
Sign(x) == IF x > 0 THEN 1 ELSE IF x < 0 THEN -1 ELSE 0

InputsPresent(k) == segments[k].uplift # None /\ ControlRpv # None /\ days > 0

\* the opportunity of segment k is visitors / days * (rpv * uplift) * 365
OpportunityIsFormula(k) ==
    segments[k].revenue_opportunity.num * days =
        segments[k].visitors * Val(ControlRpv) * Val(segments[k].uplift) * 365
            * segments[k].revenue_opportunity.den

\* C16 as stated: compute_revenue_opportunity returns
\* (segmentVisitors / runtimeDays) * (controlRevenuePerVisitor * segmentUplift) * 365
\* when all inputs are present and runtimeDays > 0, exactly 0 when the uplift
\* or the control value is absent or runtimeDays <= 0, and the result has the
\* sign of controlRevenuePerVisitor * segmentUplift.
C16_RevenueOpportunity ==
    run.tool = "spotlight" /\ run.status = "ok" =>
        \A k \in 1..Len(segments) :
            /\ InputsPresent(k) =>
                   /\ OpportunityIsFormula(k)
                   /\ MoneySign(segments[k].revenue_opportunity)
                          = Sign(Val(ControlRpv) * Val(segments[k].uplift))
            /\ ~InputsPresent(k) => segments[k].revenue_opportunity.num = 0

\* C16 amended: as above, the result having the sign of
\* controlRevenuePerVisitor * segmentUplift when the segment has visitors;
\* a segment without visitors has opportunity 0 whatever the uplift.
C16_RevenueOpportunity_WithVisitors ==
    run.tool = "spotlight" /\ run.status = "ok" =>
        \A k \in 1..Len(segments) :
            /\ InputsPresent(k) =>
                   /\ OpportunityIsFormula(k)
                   /\ segments[k].visitors > 0 =>
                          MoneySign(segments[k].revenue_opportunity)
                              = Sign(Val(ControlRpv) * Val(segments[k].uplift))
                   /\ segments[k].visitors = 0 =>
                          segments[k].revenue_opportunity.num = 0
            /\ ~InputsPresent(k) => segments[k].revenue_opportunity.num = 0

\* a visited segment with a falling uplift: 2 / 21 * (2.00 * -0.05) * 365
C16_Witness ==
    /\ run.tool = "spotlight"
    /\ Len(segments) = 1
    /\ days = 21
    /\ segments[1].visitors = 2
    /\ segments[1].uplift = Some(-50)
    /\ ControlRpv = Some(200)
    /\ segments[1].revenue_opportunity = Money(2 * 200 * (-50) * 365, 21)

--------------------------------------------------------------------------
(* SpecProject: an experiment of one control and one variant with its      *)
(* overview feed, and one run of one of the two projecting tools.          *)

MaxUpliftSteps == 2


ProjectFeed(control_value, u, ci_low, ci_high, arm_visitors) ==
    << [t |-> "dict", variation_id |-> ID(1),
        net_revenue_per_visitor |-> [t |-> "dict", value |-> control_value],
        n_orders |-> Count(15), n_visitors |-> Count(arm_visitors)],
       [t |-> "dict", variation_id |-> ID(2),
        net_revenue_per_visitor |->
            [t |-> "dict", value |-> Some(2), p2bb |-> Some(900),
             uplift |-> [t |-> "dict", value |-> u,
                         ci_low |-> ci_low, ci_high |-> ci_high]],
        n_orders |-> Count(15), n_visitors |-> Count(arm_visitors)] >>

\* a feed that also carries the gross profit per visitor, the conversion
\* rate and, unless pct is [t |-> "missing"], the share of revenue with cost
\* data, in the record at position at
BreakevenFeed(u, cr, pct, at) ==
    LET control == [t |-> "dict", variation_id |-> ID(1),
                    net_revenue_per_visitor |-> [t |-> "dict", value |-> Some(2)],
                    gross_profit_per_visitor |-> [t |-> "dict", value |-> Some(1)],
                    n_orders |-> Count(15), n_visitors |-> Count(21)]
        variant == [t |-> "dict", variation_id |-> ID(2),
                    net_revenue_per_visitor |->
                        [t |-> "dict", value |-> Some(2), p2bb |-> Some(900),
                         uplift |-> [t |-> "dict", value |-> u]],
                    gross_profit_per_visitor |->
                        [t |-> "dict", value |-> Some(1), p2bb |-> Some(900),
                         uplift |-> [t |-> "dict", value |-> Some(100)]],
                    conversion_rate |->
                        [t |-> "dict", value |-> Some(50), p2bb |-> Some(500),
                         uplift |-> [t |-> "dict", value |-> cr]],
                    n_orders |-> Count(15), n_visitors |-> Count(21)]
        cogs == [pct_revenue_with_cogs |-> [t |-> "dict", value |-> pct]]
    IN IF pct.t = "missing" THEN <<control, variant>>
       ELSE IF at = 1 THEN <<control @@ cogs, variant>>
       ELSE <<control, variant @@ cogs>>

InitProject ==
    /\ variations = <<[id |-> ID(1), isControl |-> TRUE],
                      [id |-> ID(2), isControl |-> FALSE]>>
    /\ \/ /\ \E cv \in {None, Some(2)},
                u \in {None} \cup {Some(50 * k) : k \in -1..MaxUpliftSteps},
                lo \in {None, Some(-20), Some(0), Some(50)},
                hi \in {None, Some(0), Some(200)},
                n \in {21, 1050} :
                 metrics = ProjectFeed(cv, u, lo, hi, n)
          /\ days \in {0, 21}
          /\ grouped = <<>>
       \/ /\ \E u \in {None, Some(-50), Some(0), Some(50)},
                cr \in {None, Some(-80), Some(-30), Some(0), Some(30)},
                pct \in {[t |-> "missing"], None, Some(0), Some(500)},
                at \in {1, 2} :
                 metrics = BreakevenFeed(u, cr, pct, at)
          /\ days = 21
          /\ grouped \in {<<>>, <<[name |-> ID(1), type |-> "device_type",
                                   seg_m |-> BreakevenFeed(Some(-50), None,
                                                           [t |-> "missing"], 1)]>>}
    /\ run = NoRun
    /\ proj = NoProj
    /\ fails = {}
    /\ req = [pc |-> "idle"]
    /\ experiments = <<>>
    /\ test_cards = <<>>
    /\ segments = <<>>
    /\ rec = NoRec
    /\ p2bb = None
    /\ uplift = None
    /\ total_orders = 0
    /\ total_visitors = 0
    /\ res = NoRes
    /\ stages = <<>>
    /\ found = NoFound

ImpactProjection ==
    /\ run = NoRun
    /\ run' = impact_main(variations, metrics)
    /\ IF run'.status = "ok"
       THEN \E test_type \in {"Pricing", "Content"} :
                LET metric_name == primary_revenue_metric(metrics)
                    best_id == run'.best.id
                    up == get_metric_uplift(metrics, metric_name, best_id)
                IN proj' = impact_projection(metrics, metric_name,
                                             find_control(variations).id, best_id, days)
                           @@ [test_type |-> test_type,
                               breakeven_lines |->
                                   impact_breakeven(metrics, best_id, up, test_type)]
       ELSE UNCHANGED proj
    /\ UNCHANGED <<p2bb, uplift, days, total_orders, total_visitors, res, variations,
                   metrics, stages, found, grouped, segments, rec,
                   fails, req, experiments, test_cards>>

NextProject ==
    \/ ImpactProjection
    \/ RolloutBrief

SpecProject == InitProject /\ [][NextProject]_vars

--------------------------------------------------------------------------
(* Claims about the projections.                                           *)

Projectors == {"impact", "rollout"}
\* some record of the feed has pct_revenue_with_cogs.value > 0
SomeCogs ==
    \E i \in 1..Len(metrics) :
        /\ "pct_revenue_with_cogs" \in DOMAIN metrics[i]
        /\ metrics[i].pct_revenue_with_cogs.value # None
        /\ metrics[i].pct_revenue_with_cogs.value.v > 0
MetricOfRun == IF SomeCogs THEN "gross_profit_per_visitor" ELSE "net_revenue_per_visitor"
CiOfBest == get_metric_ci(metrics, MetricOfRun, ID(2))
CiLow == CiOfBest[1]
CiHigh == CiOfBest[2]
UpliftOfBest == get_metric_uplift(metrics, MetricOfRun, ID(2))
ValueOfControl == get_metric_value(metrics, MetricOfRun, ID(1))

\* C17: in both projectors conservativeAnnual equals annualBaseline * ciLow
\* when ciLow > 0 and exactly 0.0 otherwise, so it is never negative.
C17_ConservativeAnnual ==
    proj.tool \in Projectors =>
        /\ proj.conservative_annual =
               IF CiLow # None /\ Val(CiLow) > 0
               THEN Times(proj.annual_baseline, Val(CiLow))
               ELSE NoMoney
        /\ proj.conservative_annual.num >= 0

\* C18: in both projectors optimisticAnnual is present exactly when ciHigh
\* is present, and then equals annualBaseline * ciHigh.
C18_OptimisticAnnual ==
    proj.tool \in Projectors =>
        /\ proj.optimistic_annual # None <=> CiHigh # None
        /\ CiHigh # None =>
               proj.optimistic_annual = Times(proj.annual_baseline, Val(CiHigh))

TotalVisitors == get_total_visitors(metrics)

\* a is b times n / d
IsProduct(a, b, n, d) == a.num * b.den * d = b.num * n * a.den

ProjectionExample ==
    /\ days = 21
    /\ TotalVisitors = 2100
    /\ ValueOfControl = Some(2)
    /\ UpliftOfBest = Some(100)
    /\ CiLow = Some(-20)
    /\ CiHigh = Some(200)

\* C19: avgDailyVisitors = totalVisitors / runtimeDays (0 when runtimeDays
\* <= 0), annualBaseline = avgDailyVisitors * 365 * controlValue and
\* expectedAnnual = annualBaseline * uplift; control value 2.00, 100 daily
\* visitors, uplift 0.10, ciLow -0.02 and ciHigh 0.20 give baseline 73000,
\* expected 7300, conservative 0 and optimistic 14600; with runtimeDays <= 0
\* every projected figure is 0.
C19_ProjectionFormula ==
    proj.tool \in Projectors /\ ValueOfControl # None /\ UpliftOfBest # None =>
        /\ days > 0 => proj.avg_daily_visitors.num * days
                           = TotalVisitors * proj.avg_daily_visitors.den
        /\ days <= 0 => proj.avg_daily_visitors.num = 0
        /\ IsProduct(proj.annual_baseline, proj.avg_daily_visitors,
                     365 * Val(ValueOfControl), 1)
        /\ IsProduct(proj.expected_annual, proj.annual_baseline, Val(UpliftOfBest), 1)
        /\ ProjectionExample =>
               /\ proj.annual_baseline = Money(73000, 1)
               /\ proj.expected_annual = Money(7300 * Unit, 1)
               /\ proj.conservative_annual = Money(0, 1)
               /\ proj.optimistic_annual = Money(14600 * Unit, 1)
        /\ days <= 0 =>
               /\ proj.annual_baseline.num = 0
               /\ proj.expected_annual.num = 0
               /\ proj.expected_monthly.num = 0
               /\ proj.daily_impact.num = 0
               /\ proj.conservative_annual # None => proj.conservative_annual.num = 0
               /\ proj.optimistic_annual # None => proj.optimistic_annual.num = 0

C19_Witness ==
    /\ proj.tool = "impact"
    /\ ProjectionExample
    /\ proj.avg_daily_visitors = Money(100, 1)
    /\ proj.expected_annual = Money(7300 * Unit, 1)

\* C20: expectedMonthly = expectedAnnual / 12, and likewise the conservative
\* and optimistic monthly figures when present; the daily cost of delay is
\* expectedAnnual / 365, the weekly cost 7 times and the monthly cost 30
\* times the daily cost; all of them are 0 when expectedAnnual is 0.
C20_MonthlyAndDelayCost ==
    proj.tool \in Projectors =>
        /\ IsProduct(proj.expected_monthly, proj.expected_annual, 1, 12)
        /\ IsProduct(proj.daily_impact, proj.expected_annual, 1, 365)
        /\ proj.tool = "impact" =>
               /\ proj.conservative_monthly # None <=> proj.conservative_annual # None
               /\ proj.optimistic_monthly # None <=> proj.optimistic_annual # None
               /\ proj.conservative_monthly # None =>
                      IsProduct(proj.conservative_monthly, proj.conservative_annual, 1, 12)
               /\ proj.optimistic_monthly # None =>
                      IsProduct(proj.optimistic_monthly, proj.optimistic_annual, 1, 12)
               /\ IsProduct(proj.weekly_impact, proj.daily_impact, 7, 1)
               /\ IsProduct(proj.monthly_impact_cost, proj.daily_impact, 30, 1)
               /\ proj.expected_annual.num = 0 =>
                      /\ proj.weekly_impact.num = 0
                      /\ proj.monthly_impact_cost.num = 0
        /\ proj.expected_annual.num = 0 =>
               /\ proj.expected_monthly.num = 0
               /\ proj.daily_impact.num = 0

\* 7300 a year: 608.33 a month, 20 a day, 140 a week, 600 a month of delay
C20_Witness ==
    /\ proj.tool = "impact"
    /\ proj.expected_annual = Money(7300 * Unit, 1)
    /\ proj.expected_monthly = Money(1825 * Unit, 3)
    /\ proj.daily_impact = Money(20 * Unit, 1)
    /\ proj.weekly_impact = Money(140 * Unit, 1)
    /\ proj.monthly_impact_cost = Money(600 * Unit, 1)
    /\ proj.optimistic_monthly # None

--------------------------------------------------------------------------
(* Claims about the break-even analysis of the profit-impact tool.         *)

RpvUplift == get_metric_uplift(metrics, "net_revenue_per_visitor", ID(2))
CrUplift == get_metric_uplift(metrics, "conversion_rate", ID(2))
HasLine(tag) == \E k \in 1..Len(proj.breakeven_lines) : proj.breakeven_lines[k] = tag

\* C21: the break-even analysis emits the divergence note exactly when the
\* best variant's revenue-per-visitor uplift and conversion-rate uplift are
\* both present and of opposite signs, in either direction.
C21_DivergenceNote ==
    proj.tool = "impact" =>
        (HasLine("divergence") <=>
            /\ RpvUplift # None
            /\ CrUplift # None
            /\ Sign(Val(RpvUplift)) * Sign(Val(CrUplift)) = -1)

--------------------------------------------------------------------------
(* Claims about the choice of the revenue metric.                          *)

\* C22: primary_revenue_metric is gross_profit_per_visitor exactly when some
\* record of the feed has pct_revenue_with_cogs.value > 0, and
\* net_revenue_per_visitor otherwise; a run of rollout-brief reads its
\* verdict, its segment lookups and its financial figures from that metric.
C22_PrimaryRevenueMetric ==
    /\ primary_revenue_metric(metrics) = MetricOfRun
    /\ (run.tool = "rollout" /\ run.status = "ok") =>
           /\ run.verdict =
                  rollout_compute_verdict(
                      get_metric_confidence(metrics, MetricOfRun, ID(2)),
                      get_metric_uplift(metrics, MetricOfRun, ID(2)),
                      days, get_total_orders(metrics))
           /\ Len(segments) = Len(grouped)
           /\ \A k \in 1..Len(segments) :
                  /\ segments[k].uplift =
                         get_metric_uplift(grouped[k].seg_m, MetricOfRun, ID(2))
                  /\ segments[k].confidence =
                         get_metric_confidence(grouped[k].seg_m, MetricOfRun, ID(2))
           /\ proj.expected_annual =
                  Times(Times(Times(proj.avg_daily_visitors, 365),
                              NumOrZero(get_metric_value(metrics, MetricOfRun, ID(1)))),
                        NumOrZero(get_metric_uplift(metrics, MetricOfRun, ID(2))))

\* a rollout run on a feed whose control record alone carries cost data,
\* where the two metrics disagree for the variant and for a segment
C22_Witness ==
    /\ run.tool = "rollout"
    /\ run.status = "ok"
    /\ SomeCogs
    /\ "pct_revenue_with_cogs" \notin DOMAIN metrics[2]
    /\ RpvUplift = Some(-50)
    /\ run.verdict = "WINNER"
    /\ Len(segments) = 1
    /\ segments[1].uplift = Some(100)
    /\ proj.expected_annual.num > 0

--------------------------------------------------------------------------
(* SpecLookup: a feed with at most one record per variation, and one       *)
(* lookup of a metric of a variation in it.                                *)

MaxRecords == 2

\* The record of variation i, by what it holds for the revenue metric
LookupRecord(i, c) ==
    LET base == [t |-> "dict", variation_id |-> ID(i),
                 conversion_rate |->
                     [t |-> "dict", value |-> Some(40), p2bb |-> Some(700),
                      uplift |-> [t |-> "dict", value |-> Some(-10),
                                  ci_low |-> Some(-30), ci_high |-> Some(10)]]]
        with(data) == base @@ [net_revenue_per_visitor |-> data]
    IN CASE c = "missing" -> base
         [] c = "null" -> with(None)
         [] c = "empty" -> with([t |-> "dict"])
         [] c = "null_uplift" ->
                with([t |-> "dict", value |-> Some(2000), p2bb |-> Some(900),
                      uplift |-> None])
         [] c = "null_fields" ->
                with([t |-> "dict", value |-> None, p2bb |-> None,
                      uplift |-> [t |-> "dict", value |-> None,
                                  ci_low |-> None, ci_high |-> None]])
         [] c = "zeros" ->
                with([t |-> "dict", value |-> Some(0), p2bb |-> Some(0),
                      uplift |-> [t |-> "dict", value |-> Some(0),
                                  ci_low |-> Some(0), ci_high |-> Some(0)]])
         [] c = "values" ->
                with([t |-> "dict", value |-> Some(2000), p2bb |-> Some(900),
                      uplift |-> [t |-> "dict", value |-> Some(30),
                                  ci_low |-> Some(-20), ci_high |-> Some(80)]])

InitLookup ==
    /\ \E choice \in Tuples({"norec", "missing", "null", "empty", "null_uplift",
                               "null_fields", "zeros", "values"}, MaxRecords) :
           metrics = SelectSeq([i \in 1..MaxRecords |->
                                   IF choice[i] = "norec" THEN None
                                   ELSE LookupRecord(i, choice[i])],
                               LAMBDA m : m # None)
    /\ found = NoFound
    /\ variations = <<>>
    /\ run = NoRun
    /\ stages = <<>>
    /\ grouped = <<>>
    /\ segments = <<>>
    /\ rec = NoRec
    /\ proj = NoProj
    /\ fails = {}
    /\ req = [pc |-> "idle"]
    /\ experiments = <<>>
    /\ test_cards = <<>>
    /\ p2bb = None
    /\ uplift = None
    /\ days = 0
    /\ total_orders = 0
    /\ total_visitors = 0
    /\ res = NoRes

\* one call of each of the four accessors on the same feed, metric and id
Lookup ==
    /\ found = NoFound
    /\ \E metric_name \in {"net_revenue_per_visitor", "conversion_rate"},
          i \in 1..(MaxRecords + 1) :
           found' = [fn |-> "lookup", stage |-> None,
                     metric_name |-> metric_name, variation_id |-> ID(i),
                     value |-> get_metric_value(metrics, metric_name, ID(i)),
                     uplift |-> get_metric_uplift(metrics, metric_name, ID(i)),
                     confidence |-> get_metric_confidence(metrics, metric_name, ID(i)),
                     ci |-> get_metric_ci(metrics, metric_name, ID(i))]
    /\ UNCHANGED <<p2bb, uplift, days, total_orders, total_visitors, res, variations,
                   metrics, run, stages, grouped, segments, rec, proj,
                   fails, req, experiments, test_cards>>

SpecLookup == InitLookup /\ [][Lookup]_vars

--------------------------------------------------------------------------
(* Claims about the accessors.                                             *)

\* the records of the feed for the variation looked up
RecordsOf == {k \in 1..Len(metrics) : metrics[k].variation_id = found.variation_id}
\* the stored metric of that variation: a dict, or None when there is no
\* record, the record has no such metric, or the metric is null
Stored ==
    IF RecordsOf = {} THEN None
    ELSE LET m == metrics[CHOOSE k \in RecordsOf : TRUE]
         IN IF found.metric_name \in DOMAIN m THEN m[found.metric_name] ELSE None
\* the field f of the dict j, None when j is no dict or has no such field
Field(j, f) == IF j.t = "dict" /\ f \in DOMAIN j THEN j[f] ELSE None

\* C23: each accessor returns the stored field of the record of the
\* variation, and None (never 0) when there is no such record, the metric is
\* missing or null, or the field is missing or null.
C23_AccessorsReturnStoredOrAbsent ==
    found.fn = "lookup" =>
        /\ Cardinality(RecordsOf) <= 1
        /\ found.value = Field(Stored, "value")
        /\ found.confidence = Field(Stored, "p2bb")
        /\ found.uplift = Field(Field(Stored, "uplift"), "value")
        /\ found.ci = <<Field(Field(Stored, "uplift"), "ci_low"),
                        Field(Field(Stored, "uplift"), "ci_high")>>

\* a lookup of a variation whose record has a null uplift next to a
\* stored value, in a feed of two records
C23_Witness ==
    /\ found.fn = "lookup"
    /\ Len(metrics) = 2
    /\ found.variation_id = ID(2)
    /\ found.metric_name = "net_revenue_per_visitor"
    /\ Stored # None
    /\ Stored.uplift = None
    /\ found.value = Some(2000)
    /\ found.uplift = None
    /\ found.ci = <<None, None>>

--------------------------------------------------------------------------
(* SpecFetch: an experiment of one control and one variant, the groups of  *)
(* the three segment types, the types whose fetch fails, and one run of    *)
(* one of the four tools that fetch segments.                              *)

MaxGroups == 3

InitFetch ==
    /\ variations = <<[id |-> ID(1), isControl |-> TRUE],
                      [id |-> ID(2), isControl |-> FALSE]>>
    /\ metrics = OverviewFeed(Some(200), Some(900), Some(50))
    /\ days = FLAT_MIN_DAYS
    /\ \E n \in 0..MaxGroups :
           \E type \in Tuples({SEGMENT_TYPES[k].seg_type : k \in 1..Len(SEGMENT_TYPES)}, n),
              choice \in Tuples({"win_big", "lose"}, n) :
               grouped = [i \in 1..n |->
                             [name |-> <<"New", "Returning", "Mobile", "Desktop",
                                         "Direct", "Paid">>[i],
                              type |-> type[i],
                              seg_m |-> ChosenFeed(choice[i])]]
    /\ fails \in SUBSET {SEGMENT_TYPES[k].seg_type : k \in 1..Len(SEGMENT_TYPES)}
    /\ run = NoRun
    /\ segments = <<>>
    /\ rec = NoRec
    /\ proj = NoProj
    /\ req = [pc |-> "idle"]
    /\ experiments = <<>>
    /\ test_cards = <<>>
    /\ p2bb = None
    /\ uplift = None
    /\ total_orders = 0
    /\ total_visitors = 0
    /\ res = NoRes
    /\ stages = <<>>
    /\ found = NoFound

\* debrief.py main: the verdict, the segment analysis and the insights
DebriefSegments ==
    /\ run = NoRun
    /\ run' = debrief_main(variations, metrics, days)
    /\ IF run'.status = "ok"
       THEN LET rev_metric == primary_revenue_metric(metrics)
                best_id == run'.best.id
            IN /\ segments' = analyze_segments(grouped, fails, rev_metric, best_id,
                                               find_control(variations).id)
               /\ rec' = [action |-> "insights",
                          insights |->
                              generate_insights(segments',
                                  get_metric_uplift(metrics, rev_metric, best_id))]
       ELSE UNCHANGED <<segments, rec>>
    /\ UNCHANGED <<p2bb, uplift, days, total_orders, total_visitors, res,
                   variations, metrics, stages, found, grouped, proj,
                   fails, req, experiments, test_cards>>

SpecFetch ==
    InitFetch /\ [][SpotlightSegments \/ RolloutBrief \/ DebriefSegments
                        \/ VerdictSegments]_vars

--------------------------------------------------------------------------
(* Claims about failed segment fetches.                                    *)

\* position of the type of group i in SEGMENT_TYPES
Dim(i) == CHOOSE k \in 1..Len(SEGMENT_TYPES) : SEGMENT_TYPES[k].seg_type = grouped[i].type
\* the groups of the types whose fetch succeeds
Kept == {i \in 1..Len(grouped) : grouped[i].type \notin fails}
\* the group a segment result was made from (names are distinct)
GroupOf(k) == CHOOSE i \in 1..Len(grouped) : grouped[i].name = segments[k].name
\* group i is met before group j by a loop over the types
Before(i, j) == Dim(i) < Dim(j) \/ (Dim(i) = Dim(j) /\ i < j)

ExactlyKept ==
    /\ run.status = "ok"
    /\ Len(segments) = Cardinality(Kept)
    /\ {segments[k].name : k \in 1..Len(segments)} = {grouped[i].name : i \in Kept}

\* C24 (as stated): with any set of failing segment types, a run of
\* spotlight, debrief or rollout completes, and its segment results are
\* exactly the segments of the types whose fetch succeeded, in type order.
C24_PartialSegments ==
    run.tool \in {"spotlight", "debrief", "rollout"} =>
        /\ ExactlyKept
        /\ \A k, l \in 1..Len(segments) : k < l => Before(GroupOf(k), GroupOf(l))

\* C24 (amended): the same, where the results of spotlight, which ranks
\* its segments, are in type order among segments of equal absolute
\* revenue opportunity only.
C24_PartialSegments_Ranked ==
    run.tool \in {"spotlight", "debrief", "rollout"} =>
        /\ ExactlyKept
        /\ \A k, l \in 1..Len(segments) :
               k < l =>
                   IF run.tool = "spotlight"
                   THEN /\ ~AbsLess(segments[k].revenue_opportunity,
                                    segments[l].revenue_opportunity)
                        /\ \/ AbsLess(segments[l].revenue_opportunity,
                                      segments[k].revenue_opportunity)
                           \/ Before(GroupOf(k), GroupOf(l))
                   ELSE Before(GroupOf(k), GroupOf(l))

\* a debrief run where the visitor-type fetch fails and drops a group,
\* and the two groups left come out in type order, not in feed order
C24_Witness ==
    /\ run.tool = "debrief"
    /\ run.status = "ok"
    /\ fails = {"visitor_type"}
    /\ Len(grouped) = 3
    /\ grouped[1].type = "source_channel"
    /\ grouped[2].type = "visitor_type"
    /\ grouped[3].type = "device_type"
    /\ Len(segments) = 2
    /\ segments[1].name = grouped[3].name
    /\ segments[2].name = grouped[1].name

--------------------------------------------------------------------------
(* SpecCore: one snapshot (classifier inputs, variations, feed, stage      *)
(* list, segment list) and calls of the core functions on it, in any       *)
(* order and any number of times.                                          *)

MaxCoreSegments == 2

InitCore ==
    /\ p2bb \in {None, Some(900)}
    /\ uplift \in {Some(-50), Some(50)}
    /\ days = FLAT_MIN_DAYS
    /\ total_orders = VERDICT_MIN_ORDERS
    /\ variations = [i \in 1..3 |-> [id |-> ID(i), isControl |-> i = 1]]
    /\ \E c \in {"control", "up", "down"} :
           metrics = [i \in 1..3 |->
                         FunnelFeed([k \in 1..Len(FUNNEL_STAGES) |-> c], i)]
    /\ \E us \in Tuples({None, Some(-80), Some(100)}, 2) :
           stages = [i \in 1..2 |-> Stage(i, us[i])]
    /\ \E n \in 0..MaxCoreSegments :
           segments \in Tuples(
               {[name |-> "New", type |-> "Visitor Type",
                 verdict |-> "WINNER", uplift |-> Some(60)],
                [name |-> "Returning", type |-> "Visitor Type",
                 verdict |-> "LOSER", uplift |-> Some(-50)],
                [name |-> "Mobile", type |-> "Device",
                 verdict |-> "LOW DATA", uplift |-> None]}, n)
    /\ found = NoFound
    /\ run = NoRun
    /\ grouped = <<>>
    /\ rec = NoRec
    /\ proj = NoProj
    /\ fails = {}
    /\ req = [pc |-> "idle"]
    /\ experiments = <<>>
    /\ test_cards = <<>>
    /\ total_visitors = 0
    /\ res = NoRes

\* one call of a core function on the snapshot; found keeps what it
\* returned and whether the call before was of the same function
CallCore ==
    /\ \E fn \in {"compute_verdict", "segment_verdict", "pick_best_variant",
                    "analyze_funnel", "find_breakpoint", "find_biggest_gain",
                    "find_biggest_drop", "rollout_recommendation",
                    "generate_insights"} :
           found' =
               [fn |-> fn, stage |-> None,
                calls |-> IF found.fn = fn THEN 2 ELSE 1,
                result |->
                    CASE fn = "compute_verdict" ->
                             rollout_compute_verdict(p2bb, uplift, days, total_orders)
                      [] fn = "segment_verdict" ->
                             spotlight_segment_verdict(p2bb, uplift, days)
                      [] fn = "pick_best_variant" ->
                             funnel_pick_best_variant(find_variants(variations), metrics,
                                                      FUNNEL_STAGES[1].metric)
                      [] fn = "analyze_funnel" -> analyze_funnel(metrics, ID(1), ID(2))
                      [] fn = "find_breakpoint" -> find_breakpoint(stages)
                      [] fn = "find_biggest_gain" -> find_biggest_gain(stages)
                      [] fn = "find_biggest_drop" -> find_biggest_drop(stages)
                      [] fn = "rollout_recommendation" -> rollout_recommendation(segments)
                      [] fn = "generate_insights" -> generate_insights(segments, uplift)]
    /\ UNCHANGED <<p2bb, uplift, days, total_orders, total_visitors, res,
                   variations, metrics, run, stages, grouped, segments, rec, proj,
                   fails, req, experiments, test_cards>>

SpecCore == InitCore /\ [][CallCore]_vars

--------------------------------------------------------------------------
(* Claims about the core functions as pure functions.                      *)

--------------------------------------------------------------------------
(* SpecRequest: one call of IntelligemsAPI._request.  req holds the        *)
(* position in the loop, the attempt number, for every throttle step       *)
(* whether it slept, the status of every response, the seconds waited      *)
(* after rate limits and the outcome.  A 2xx response carries a JSON body. *)

MAX_RETRIES == 5
RETRY_BASE_DELAY == 5

\* a variant that also takes a server error for a rate limit
is_rate_limited_or_server_error(status) == status \in {"429", "500"}

\* e.response is not None and e.response.status_code == 429
is_rate_limited(status) == status = "429"

InitRequest ==
    /\ req = [pc |-> "throttle", attempt |-> 0, slept |-> <<>>, log |-> <<>>,
              waited |-> 0, result |-> "none"]
    /\ fails = {}
    /\ experiments = <<>>
    /\ test_cards = <<>>
    /\ run = NoRun
    /\ found = NoFound
    /\ rec = NoRec
    /\ proj = NoProj
    /\ variations = <<>>
    /\ metrics = <<>>
    /\ stages = <<>>
    /\ grouped = <<>>
    /\ segments = <<>>
    /\ p2bb = None
    /\ uplift = None
    /\ days = 0
    /\ total_orders = 0
    /\ total_visitors = 0
    /\ res = NoRes

\* self._throttle(): sleeps when the last request is less than
\* REQUEST_DELAY old
Throttle ==
    /\ req.pc = "throttle"
    /\ \E slept \in BOOLEAN :
           req' = [req EXCEPT !.pc = "get", !.slept = Append(@, slept)]
    /\ UNCHANGED <<p2bb, uplift, days, total_orders, total_visitors, res,
                   variations, metrics, run, stages, found, grouped, segments,
                   rec, proj, fails, experiments, test_cards>>

\* requests.get, raise_for_status and the except clause, up to the next
\* throttle step or the end of the call
SendRequest ==
    /\ req.pc = "get"
    /\ \E status \in {"200", "404", "429", "500", "connection_error"} :
           req' =
               IF status = "200"
               THEN [req EXCEPT !.pc = "returned", !.log = Append(@, status),
                                !.result = "body"]
               ELSE IF status # "connection_error" /\ is_rate_limited(status)
               THEN [req EXCEPT
                        !.log = Append(@, status),
                        !.waited = @ + RETRY_BASE_DELAY * 2 ^ req.attempt,
                        !.attempt = @ + 1,
                        !.pc = IF req.attempt + 1 < MAX_RETRIES
                               THEN "throttle" ELSE "returned",
                        !.result = IF req.attempt + 1 < MAX_RETRIES
                                   THEN "none" ELSE "empty"]
               ELSE [req EXCEPT !.pc = "raised", !.log = Append(@, status)]
    /\ UNCHANGED <<p2bb, uplift, days, total_orders, total_visitors, res,
                   variations, metrics, run, stages, found, grouped, segments,
                   rec, proj, fails, experiments, test_cards>>

\* the call runs on: a sleep ends and a request is answered
SpecRequest ==
    InitRequest /\ [][Throttle \/ SendRequest]_vars /\ WF_vars(Throttle \/ SendRequest)

--------------------------------------------------------------------------
(* Claims about the request loop.                                          *)

RequestOver == req.pc \in {"returned", "raised"}

RequestSafety ==
    /\ Len(req.log) <= MAX_RETRIES
    \* a throttle step before every request
    /\ Len(req.slept) = Len(req.log) + (IF req.pc = "get" THEN 1 ELSE 0)
    \* a request follows only a 429
    /\ \A k \in 1..(Len(req.log) - 1) : req.log[k] = "429"
    /\ req.pc = "throttle" => \A k \in 1..Len(req.log) : req.log[k] = "429"
    \* a success returns the body at once
    /\ (Len(req.log) > 0 /\ req.log[Len(req.log)] = "200") =>
           (req.pc = "returned" /\ req.result = "body")
    \* any other error is raised at once
    /\ (Len(req.log) > 0 /\ req.log[Len(req.log)] \notin {"200", "429"}) =>
           req.pc = "raised"
    /\ req.pc = "raised" => req.log[Len(req.log)] \notin {"200", "429"}
    \* five 429 in a row end the call with the empty result
    /\ (Len(req.log) = MAX_RETRIES /\ req.log[MAX_RETRIES] = "429") =>
           (req.pc = "returned" /\ req.result = "empty")
    /\ req.result = "empty" => Len(req.log) = MAX_RETRIES

--------------------------------------------------------------------------
(* SpecBrief: the morning brief.  experiments holds, per active            *)
(* experiment, whether its analytics could be fetched and the arguments    *)
(* main derives for compute_health; test_cards holds the cards after the   *)
(* sort.  Lifts and confidences are optional, in thousandths.              *)

MIN_RUNTIME_DAYS == 10
MaxExperiments == 3

\* a variant that tests the runtime below MIN_RUNTIME_DAYS before the
\* conversion drop
compute_health_runtime_first(runtime, orders, daily_vis_rate, best_primary_lift, best_primary_conf, best_conv_lift, best_conv_conf) ==
    IF runtime < 3
    THEN [status |-> "RED", action |-> "just_started"]
    ELSE IF runtime >= 3 /\ orders = 0
    THEN [status |-> "RED", action |-> "zero_orders"]
    ELSE IF runtime < MIN_RUNTIME_DAYS
    THEN [status |-> "YELLOW", action |-> "needs_more_data"]
    ELSE IF /\ best_conv_lift # None /\ best_conv_conf # None
            /\ Val(best_conv_lift) < -200 /\ Val(best_conv_conf) >= 800
    THEN [status |-> "RED", action |-> "conversion_dropping"]
    ELSE IF /\ best_primary_lift # None /\ best_primary_conf # None
            /\ Val(best_primary_lift) < 0
            /\ 600 <= Val(best_primary_conf) /\ Val(best_primary_conf) < 800
    THEN [status |-> "YELLOW", action |-> "trending_negative"]
    ELSE IF daily_vis_rate < 50
    THEN [status |-> "YELLOW", action |-> "low_traffic"]
    ELSE [status |-> "GREEN", action |-> "on_track"]

compute_health(runtime, orders, daily_vis_rate, best_primary_lift, best_primary_conf, best_conv_lift, best_conv_conf) ==
    IF runtime < 3
    THEN [status |-> "RED", action |-> "just_started"]
    ELSE IF runtime >= 3 /\ orders = 0
    THEN [status |-> "RED", action |-> "zero_orders"]
    ELSE IF /\ best_conv_lift # None /\ best_conv_conf # None
            /\ Val(best_conv_lift) < -200 /\ Val(best_conv_conf) >= 800
    THEN [status |-> "RED", action |-> "conversion_dropping"]
    ELSE IF runtime < MIN_RUNTIME_DAYS
    THEN [status |-> "YELLOW", action |-> "needs_more_data"]
    ELSE IF /\ best_primary_lift # None /\ best_primary_conf # None
            /\ Val(best_primary_lift) < 0
            /\ 600 <= Val(best_primary_conf) /\ Val(best_primary_conf) < 800
    THEN [status |-> "YELLOW", action |-> "trending_negative"]
    ELSE IF daily_vis_rate < 50
    THEN [status |-> "YELLOW", action |-> "low_traffic"]
    ELSE IF /\ best_primary_conf # None /\ Val(best_primary_conf) >= 800
            /\ best_primary_lift # None /\ Val(best_primary_lift) > 20
            /\ orders >= VERDICT_MIN_ORDERS
    THEN [status |-> "GREEN", action |-> "strong_signal"]
    ELSE IF /\ best_primary_conf # None /\ Val(best_primary_conf) >= 600
            /\ best_primary_lift # None /\ Val(best_primary_lift) > 20
    THEN [status |-> "GREEN", action |-> "emerging_winner"]
    ELSE [status |-> "GREEN", action |-> "on_track"]

\* one experiment over the whole grid of arguments, or up to MaxExperiments
\* experiments drawn from: a failed fetch, a conversion drop, a negative
\* trend, low traffic, a strong signal
InitBrief ==
    /\ \/ \E runtime \in {2, 3, 9, 10}, orders \in {0, 30},
             daily_vis_rate \in {49, 50},
             pl \in {None, Some(-1), Some(0), Some(30)},
             pc \in {None, Some(599), Some(600), Some(799), Some(800)},
             cl \in {None, Some(-201), Some(-200)},
             cc \in {None, Some(799), Some(800)} :
            experiments =
                <<[fetched |-> TRUE, runtime |-> runtime, orders |-> orders,
                   daily_vis_rate |-> daily_vis_rate,
                   primary_lift |-> pl, primary_conf |-> pc,
                   conv_lift |-> cl, conv_conf |-> cc]>>
       \/ \E n \in 2..MaxExperiments :
            experiments \in
                [1..n ->
                   {[fetched |-> f, runtime |-> 12, orders |-> 30,
                     daily_vis_rate |-> v,
                     primary_lift |-> pl, primary_conf |-> pc,
                     conv_lift |-> cl, conv_conf |-> Some(900)] :
                      <<f, v, pl, pc, cl>> \in
                        {<<FALSE, 60, None, None, None>>,
                         <<TRUE, 60, Some(30), Some(900), Some(-300)>>,
                         <<TRUE, 60, Some(-30), Some(700), Some(10)>>,
                         <<TRUE, 40, Some(30), Some(500), Some(10)>>,
                         <<TRUE, 60, Some(30), Some(900), Some(10)>>}}]
    /\ test_cards = <<>>
    /\ fails = {}
    /\ req = [pc |-> "idle"]
    /\ run = NoRun
    /\ found = NoFound
    /\ rec = NoRec
    /\ proj = NoProj
    /\ variations = <<>>
    /\ metrics = <<>>
    /\ stages = <<>>
    /\ grouped = <<>>
    /\ segments = <<>>
    /\ p2bb = None
    /\ uplift = None
    /\ days = 0
    /\ total_orders = 0
    /\ total_visitors = 0
    /\ res = NoRes

\* main: one card per experiment, then the stable sort on STATUS_ORDER
MorningBrief ==
    /\ test_cards = <<>>
    /\ LET card(i) ==
               LET e == experiments[i]
               IN IF ~e.fetched
                  THEN [name |-> i, status |-> "RED", action |-> "api_error"]
                  ELSE [name |-> i] @@
                       compute_health(e.runtime, e.orders, e.daily_vis_rate,
                                      e.primary_lift, e.primary_conf,
                                      e.conv_lift, e.conv_conf)
           cards == [i \in 1..Len(experiments) |-> card(i)]
       IN test_cards' =
              SelectSeq(cards, LAMBDA c : c.status = "RED")
              \o SelectSeq(cards, LAMBDA c : c.status = "YELLOW")
              \o SelectSeq(cards, LAMBDA c : c.status = "GREEN")
    /\ UNCHANGED <<p2bb, uplift, days, total_orders, total_visitors, res,
                   variations, metrics, run, stages, found, grouped, segments,
                   rec, proj, fails, req, experiments>>

SpecBrief == InitBrief /\ [][MorningBrief]_vars

--------------------------------------------------------------------------
(* Claims about the morning brief.                                         *)

HealthRed(e) ==
    \/ e.runtime < 3
    \/ e.orders = 0
    \/ /\ e.conv_lift # None /\ e.conv_conf # None
       /\ Val(e.conv_lift) < -200 /\ Val(e.conv_conf) >= 800

HealthYellow(e) ==
    \/ e.runtime < 10
    \/ /\ e.primary_lift # None /\ e.primary_conf # None
       /\ Val(e.primary_lift) < 0
       /\ Val(e.primary_conf) >= 600 /\ Val(e.primary_conf) < 800
    \/ e.daily_vis_rate < 50

StatusRank(status) ==
    CASE status = "RED" -> 0 [] status = "YELLOW" -> 1 [] status = "GREEN" -> 2

\* C27: the card of every fetched experiment is RED when the runtime is
\* below 3 days, the orders are 0 or conversion drops by more than 0.20 at
\* confidence 0.80 or more; else YELLOW when the runtime is below 10 days,
\* the primary lift is negative at confidence in [0.60, 0.80) or the
\* daily visitors are below 50; else GREEN; and the cards are listed RED,
\* then YELLOW, then GREEN.
C27_HealthPrecedence ==
    test_cards # <<>> =>
        /\ Len(test_cards) = Len(experiments)
        /\ \A k \in 1..Len(test_cards) :
              LET e == experiments[test_cards[k].name]
              IN e.fetched =>
                   test_cards[k].status =
                       IF HealthRed(e) THEN "RED"
                       ELSE IF HealthYellow(e) THEN "YELLOW" ELSE "GREEN"
        /\ \A k, l \in 1..Len(test_cards) :
              k < l => StatusRank(test_cards[k].status)
                         <= StatusRank(test_cards[l].status)

\* three cards that the sort reordered: a conversion drop listed first
\* although its experiment came last and its primary metric shows a
\* strong signal, then a negative trend, then a strong signal
C27_Witness ==
    /\ Len(test_cards) = 3
    /\ test_cards[1].name = 3
    /\ test_cards[1].action = "conversion_dropping"
    /\ test_cards[2].action = "trending_negative"
    /\ test_cards[3].action = "strong_signal"
    /\ test_cards[3].name = 1

--------------------------------------------------------------------------
(* SpecVerdict: test-verdict on a control and up to MaxVariants variants   *)
(* whose feed carries the primary metric and the conversion rate.  rec     *)
(* holds variation_results in list order, run the best entry.              *)

MaxVariants == 2

\* one variant over the grid of confidences and of uplifts around the dead
\* zone, or several variants over the confidences and the uplifts that
\* decide the verdict
InitVerdict ==
    /\ \E n \in 1..MaxVariants :
        \E feed \in
             [1..n ->
                 IF n = 1
                 THEN {None, Some(100), Some(500), Some(900)}
                      \X {None, Some(-30), Some(-6), Some(-5), Some(5), Some(6),
                          Some(30)}
                      \X {None, Some(-6), Some(-5), Some(0), Some(5), Some(6)}
                 ELSE {None, Some(100), Some(150), Some(500), Some(850),
                       Some(900)}
                      \X {None, Some(-30), Some(10), Some(30)}
                      \X {Some(-30)}] :
           /\ variations =
                  [i \in 1..(n + 1) |-> [id |-> ID(i), isControl |-> i = 1]]
           /\ metrics =
                  [i \in 1..(n + 1) |->
                     IF i = 1
                     THEN [t |-> "dict", variation_id |-> ID(1),
                           net_revenue_per_visitor |-> Revenue(None, None),
                           conversion_rate |-> Revenue(None, None),
                           n_orders |-> Count(30), n_visitors |-> Count(100)]
                     ELSE [t |-> "dict", variation_id |-> ID(i),
                           net_revenue_per_visitor |->
                               Revenue(feed[i - 1][1], feed[i - 1][2]),
                           conversion_rate |->
                               Revenue(Some(500), feed[i - 1][3]),
                           n_orders |-> Count(15), n_visitors |-> Count(50)]]
    /\ days \in MainDays
    /\ run = NoRun
    /\ rec = NoRec
    /\ fails = {}
    /\ req = [pc |-> "idle"]
    /\ experiments = <<>>
    /\ test_cards = <<>>
    /\ found = NoFound
    /\ proj = NoProj
    /\ stages = <<>>
    /\ grouped = <<>>
    /\ segments = <<>>
    /\ p2bb = None
    /\ uplift = None
    /\ total_orders = 0
    /\ total_visitors = 0
    /\ res = NoRes

\* main up to the choice of the best variation
VerdictVariations ==
    /\ run = NoRun
    /\ run' = verdict_main(variations, metrics, days)
    /\ rec' = [action |-> "variation_results",
               results |-> LET variants == find_variants(variations)
                           IN [i \in 1..Len(variants) |->
                                 variation_result(variants[i], variations,
                                                  metrics, days)]]
    /\ UNCHANGED <<p2bb, uplift, days, total_orders, total_visitors, res,
                   variations, metrics, stages, found, grouped, segments,
                   proj, fails, req, experiments, test_cards>>

SpecVerdict == InitVerdict /\ [][VerdictVariations]_vars

--------------------------------------------------------------------------
(* Claims about the variation loop of test-verdict.                        *)

VerdictOrder == <<"WINNER", "KEEP RUNNING", "FLAT", "LOSER", "TOO EARLY">>
VerdictRank(verdict) == CHOOSE k \in 1..5 : VerdictOrder[k] = verdict
P2bbOrZero(r) == IF r.p2bb = None THEN 0 ELSE Val(r.p2bb)
VerdictRan == run.tool = "verdict" /\ run.status = "ok"
BestIndex == CHOOSE k \in 1..Len(rec.results) : rec.results[k].id = run.best.id

\* C28: the best variation has the first verdict in the order WINNER, KEEP
\* RUNNING, FLAT, LOSER, TOO EARLY; among those with that verdict it has the
\* highest p2bb, an absent one counting as 0, and it is the earliest in the
\* list with that key; the headline is WINNER when any variation is a
\* WINNER and LOSER only when none is WINNER, KEEP RUNNING or FLAT.
C28_BestVariation ==
    VerdictRan =>
        LET rs == rec.results
            best == rs[BestIndex]
        IN /\ run.verdict = best.verdict
           /\ \A j \in 1..Len(rs) :
                 /\ VerdictRank(best.verdict) <= VerdictRank(rs[j].verdict)
                 /\ rs[j].verdict = best.verdict =>
                        P2bbOrZero(best) >= P2bbOrZero(rs[j])
                 /\ (j < BestIndex /\ rs[j].verdict = best.verdict) =>
                        P2bbOrZero(best) > P2bbOrZero(rs[j])
           /\ (\E j \in 1..Len(rs) : rs[j].verdict = "WINNER") =>
                 run.verdict = "WINNER"
           /\ run.verdict = "LOSER" =>
                 \A j \in 1..Len(rs) :
                     rs[j].verdict \notin {"WINNER", "KEEP RUNNING", "FLAT"}

\* two winners, the second with the higher p2bb, and the second is best
C28_Witness ==
    /\ VerdictRan
    /\ Len(rec.results) = 2
    /\ rec.results[1].verdict = "WINNER"
    /\ rec.results[2].verdict = "WINNER"
    /\ P2bbOrZero(rec.results[1]) < P2bbOrZero(rec.results[2])
    /\ BestIndex = 2

DirectionOf(u) ==
    IF Val(u) > 5 THEN "up" ELSE IF Val(u) < -5 THEN "down" ELSE "flat"

Diverges(r) ==
    /\ r.rpv_uplift # None
    /\ r.cr_uplift # None
    /\ DirectionOf(r.rpv_uplift) # "flat"
    /\ DirectionOf(r.cr_uplift) # "flat"
    /\ DirectionOf(r.rpv_uplift) # DirectionOf(r.cr_uplift)

\* C29: a variation carries a divergence note exactly when both uplifts are
\* present, both directions (dead zone 0.005) are non-flat and they differ;
\* the note is then the one of (up, down) or of (down, up), never the
\* generic one.
C29_DivergenceNote ==
    VerdictRan =>
        \A j \in 1..Len(rec.results) :
            LET r == rec.results[j]
            IN /\ (r.divergence # "none") <=> Diverges(r)
               /\ r.divergence # "not_aligned"
               /\ r.divergence = "revenue_up_conversion_down" =>
                     (DirectionOf(r.rpv_uplift) = "up"
                      /\ DirectionOf(r.cr_uplift) = "down")
               /\ r.divergence = "conversion_up_revenue_down" =>
                     (DirectionOf(r.rpv_uplift) = "down"
                      /\ DirectionOf(r.cr_uplift) = "up")

\* conversion just outside the dead zone upwards, revenue just outside it
\* downwards: the note of (down, up)
C29_Witness ==
    /\ VerdictRan
    /\ Len(rec.results) = 1
    /\ rec.results[1].rpv_uplift = Some(-6)
    /\ rec.results[1].cr_uplift = Some(6)
    /\ rec.results[1].divergence = "conversion_up_revenue_down"

--------------------------------------------------------------------------
(* Claims about the recommendation of rollout-brief, under SpecSegments.   *)

RolloutRan == run.tool = "rollout" /\ run.status = "ok"

\* C30: after a rollout-brief run the action is ROLL OUT WITH CAUTION
\* exactly when the verdict is WINNER, some segment is flagged as a
\* contradiction and some segment is a LOSER; any other WINNER gives ROLL
\* OUT; LOSER gives END TEST, FLAT gives END TEST - TRY SOMETHING DIFFERENT,
\* KEEP RUNNING gives KEEP RUNNING and TOO EARLY gives WAIT, whatever the
\* segments are.
C30_BuildRecommendation ==
    RolloutRan =>
        rec.action =
            CASE run.verdict = "WINNER" ->
                     IF /\ \E i \in 1..Len(segments) : segments[i].contradiction
                        /\ \E i \in 1..Len(segments) : segments[i].verdict = "LOSER"
                     THEN "ROLL OUT WITH CAUTION" ELSE "ROLL OUT"
              [] run.verdict = "LOSER" -> "END TEST"
              [] run.verdict = "FLAT" -> "END TEST - TRY SOMETHING DIFFERENT"
              [] run.verdict = "KEEP RUNNING" -> "KEEP RUNNING"
              [] run.verdict = "TOO EARLY" -> "WAIT"

\* a winner with a losing segment among several: caution, naming the loser
C30_Witness ==
    /\ RolloutRan
    /\ run.verdict = "WINNER"
    /\ Len(segments) >= 2
    /\ segments[1].verdict = "WINNER"
    /\ segments[2].verdict = "LOSER"
    /\ segments[2].contradiction
    /\ rec.action = "ROLL OUT WITH CAUTION"
    /\ rec.loser_names # <<>>

==========================================================================
